---- MODULE Spec2Model ----
(***************************************************************************)
(* The chromedp product scraper (package scrapper): Start, worker,         *)
(* discoverProductLinks, scrapeProductPage and writeCSV.                   *)
(*                                                                         *)
(* Strings that the program takes apart (URLs, ProductID) are sequences of *)
(* one-character strings; text that it only carries around is a string.    *)
(***************************************************************************)
EXTENDS Integers, Sequences, FiniteSets, Bags, TLC

(***************************************************************************)
(* Bounds of the model.                                                    *)
(***************************************************************************)
\* Longest list of anchors the listing page hands to discoverProductLinks.
MaxAnchors == 3
\* const productTarget (250 in the source), scaled down so that a discovered
\* list can be longer than the cap.
productTarget == 2
\* Longest path, in segments, of the URLs given to scrapeProductPage alone.
MaxSegs == 3
\* Longest list of intercepted exchanges in the file of
\* getProductDataFromFile.
MaxXHR == 3
\* Largest pool whose runs are followed with the history of the jobs.
MaxTraced == 2
\* Longest list of item boxes on the listing page of the colly variant.
MaxItems == 3

\* const numWorkers
numWorkers == 4
\* scrolls := 5 in discoverProductLinks
scrolls == 5

(***************************************************************************)
(* strings.Trim and strings.Split on sequences of characters.              *)
(***************************************************************************)
Slash == "/"

RECURSIVE TrimLeft(_, _)
TrimLeft(s, c) ==
    IF Len(s) > 0 /\ Head(s) = c THEN TrimLeft(Tail(s), c) ELSE s

RECURSIVE TrimRight(_, _)
TrimRight(s, c) ==
    IF Len(s) > 0 /\ s[Len(s)] = c
    THEN TrimRight(SubSeq(s, 1, Len(s) - 1), c)
    ELSE s

\* strings.Trim(s, cutset) for a cutset of one character: every leading and
\* every trailing c is removed.
Trim(s, c) == TrimRight(TrimLeft(s, c), c)

\* strings.Split(s, sep) for a separator of one character: the pieces between
\* the separators, empty pieces kept; a string without separator (the empty
\* string too) gives one piece.  cut(k) is the place of the k-th separator,
\* with the two ends of s as the 0-th and the last cut.
Split(s, sep) ==
    LET at == { i \in 1..Len(s) : s[i] = sep }
        cut(k) == IF k = 0 THEN 0
                  ELSE IF k = Cardinality(at) + 1 THEN Len(s) + 1
                  ELSE CHOOSE i \in at :
                           Cardinality({ j \in at : j < i }) = k - 1
    IN  [ k \in 1..(Cardinality(at) + 1) |->
            SubSeq(s, cut(k - 1) + 1, cut(k) - 1) ]

\* The ProductID of scrapeProductPage: the last piece of the trimmed URL.
ProductIDOf(url) ==
    LET urlParts == Split(Trim(url, Slash), Slash)
    IN  IF Len(urlParts) > 0 THEN urlParts[Len(urlParts)] ELSE <<>>

(***************************************************************************)
(* URLs.                                                                   *)
(***************************************************************************)
Origin == <<"h", ":", "/", "/", "s">>

\* The product pages of the listing.
ListingURLs ==
    { Origin \o <<"/", "p", "/", "1", "/">>,
      Origin \o <<"/", "p", "/", "2">>,
      Origin \o <<"/", "p", "/", "3">> }

(***************************************************************************)
(* type Product.                                                           *)
(***************************************************************************)
\* The fields that scrapeProductPage fills from the page, in the order in
\* which the struct declares them.
TextFields ==
    <<"Name", "Price", "ImageURL", "Breadcrumb", "DescriptionGeneral",
      "DescriptionTitle", "DescriptionItemized", "AvailableSizes",
      "SenseOfSize", "Keywords", "SizeChartJSON", "ReviewsJSON",
      "OverallRating", "NumberOfReviews", "RecommendedRate",
      "CoordinatedProductsJSON">>

TextFieldSet == { TextFields[i] : i \in 1..Len(TextFields) }

\* Product{}: every field the empty string.
EmptyProduct ==
    [ f \in TextFieldSet \cup {"URL", "ProductID"} |->
        IF f \in {"URL", "ProductID"} THEN <<>> ELSE "" ]

\* What the page of a product shows for a field; the page is the
\* environment, and one text per field is enough to tell the fields apart.
PageValue(url, f) == f

\* var p Product; p.URL = url; p.ProductID = ... (before any browser action).
NewProductNoID(url) == [EmptyProduct EXCEPT !.URL = url]

NewProduct(url) ==
    [EmptyProduct EXCEPT !.URL = url, !.ProductID = ProductIDOf(url)]

\* p once every browser action of chromedp.Run has succeeded and lines
\* 244-246 have copied the three JSON texts.
Fill(p, url) ==
    [ f \in DOMAIN p |->
        IF f \in TextFieldSet THEN PageValue(url, f) ELSE p[f] ]

\* The product scrapeProductPage returns on success.
Extracted(url) == Fill(NewProduct(url), url)

(***************************************************************************)
(* The deduplication loop of discoverProductLinks.                         *)
(***************************************************************************)
RECURSIVE UniqueLoop(_, _, _, _)
UniqueLoop(ls, i, uniqueLinks, result) ==
    IF i > Len(ls) THEN result
    ELSE IF ls[i] \notin uniqueLinks
         THEN UniqueLoop(ls, i + 1, uniqueLinks \cup {ls[i]},
                         Append(result, ls[i]))
         ELSE UniqueLoop(ls, i + 1, uniqueLinks, result)

UniqueKeepAll(ls) == ls

Unique(ls) == UniqueLoop(ls, 1, {}, <<>>)

(***************************************************************************)
(* Channels: make(chan T, n), send, receive, close.                        *)
(***************************************************************************)
NoChan == [buf |-> <<>>, cap |-> 0, closed |-> FALSE]
MakeChan(n) == [buf |-> <<>>, cap |-> n, closed |-> FALSE]
\* A send on a buffered channel goes through when the buffer has room; a
\* send on a closed channel panics and is not a step of the model.
CanSend(ch) == Len(ch.buf) < ch.cap /\ ~ch.closed
CanRecv(ch) == Len(ch.buf) > 0
\* "for x := range ch" ends when the channel is closed and drained.
Drained(ch) == Len(ch.buf) = 0 /\ ch.closed
\* A channel that hands over its newest value first.
SendAtHead(ch, v) == [ch EXCEPT !.buf = <<v>> \o @]
SendOn(ch, v) == [ch EXCEPT !.buf = Append(@, v)]
\* A receive takes the value at the head out of the buffer.
RecvKeeps(ch) == ch
RecvFrom(ch) == [ch EXCEPT !.buf = Tail(@)]
CloseChan(ch) == [ch EXCEPT !.closed = TRUE]

(***************************************************************************)
(* State.                                                                  *)
(***************************************************************************)
VARIABLES
    nWorkers,       \* size of the pool (numWorkers in the source)
    page,           \* the hrefs of the product cards of the listing page
    pc,             \* where Start is
    scrollI,        \* i of the scroll loop of discoverProductLinks
    productLinks,   \* productLinks of Start
    jobs,           \* chan string
    results,        \* chan Product
    wg,             \* sync.WaitGroup counter
    spawned,        \* workers started by the loop of lines 108-111
    enq,            \* i of the loop of lines 113-118: links sent on jobs
    wpc,            \* where each worker is
    wurl,           \* url of each worker's range loop
    wprod,          \* product that scrapeProductPage returned to the worker
    taskCtx,        \* the chromedp context of each worker (0: not created)
    ctxs,           \* state of every chromedp context: 0 is ctx of Start
    finalProducts,  \* finalProducts of Start
    csv,            \* rows written to data/products.csv
    logs,           \* bag of the failure lines the workers logged
    scraped,        \* bag of the calls scrapeProductPage(ctx, url)
    sent,           \* bag of the products sent on results
    scrapeCtx,      \* scrapeCtx of the scrapeProductPage call of each worker
    writer,         \* writeCSV: the file, the loop index, the warnings
    call,           \* one call of scrapeProductPage, step by step
    get,            \* one call of getProductDataFromFile, step by step
    trace,          \* history: who dequeued and who completed which job
    colly,          \* Start of the colly variant (package scraper)
    zen             \* main of the ZenRows variant

vars ==
    <<nWorkers, page, pc, scrollI, productLinks, jobs, results, wg, spawned,
      enq, wpc, wurl, wprod, taskCtx, ctxs, finalProducts, csv, logs,
      scraped, sent, scrapeCtx, writer, call, get, trace, colly, zen>>

Workers == 1..numWorkers

\* The lists of anchors the listing page may show.
Pages ==
    UNION { [1..n -> ListingURLs] : n \in 0..MaxAnchors }

\* The pool handles every URL alike and sees no duplicate: for the run of the
\* pool the lists are an empty one, lists of one, two and three distinct URLs,
\* and lists with a duplicate anchor.
U1 == Origin \o <<"/", "p", "/", "1", "/">>
U2 == Origin \o <<"/", "p", "/", "2">>
U3 == Origin \o <<"/", "p", "/", "3">>
PoolPages ==
    { <<>>, <<U1>>, <<U1, U2>>, <<U1, U2, U3>>, <<U1, U1>>, <<U1, U2, U1>> }

NoCall == [state |-> "none"]

\* No context: the zero value of a context variable.
NoCtx == [state |-> "none", parent |-> 0]

\* writeCSV has not been called.
NoWriter == [file |-> "none", i |-> 0, warned |-> <<>>]

\* The history of the jobs, kept only where on is TRUE: deq[w] is the
\* sequence of the jobs worker w received, out the sequence of the jobs that
\* were completed, each with its worker and its outcome.
NoTrace == [on |-> FALSE, deq |-> <<>>, out |-> <<>>]

Dequeued(t, w, url) ==
    IF t.on THEN [t EXCEPT !.deq[w] = Append(@, url)] ELSE t

Completed(t, w, url, ok) ==
    IF t.on
    THEN [t EXCEPT !.out = Append(@, [w |-> w, url |-> url, ok |-> ok])]
    ELSE t

poolVars ==
    <<jobs, results, wg, spawned, enq, wpc, wurl, wprod, taskCtx,
      finalProducts, csv, logs, scraped, sent, scrapeCtx, trace>>

InitPool ==
    /\ scrollI = 0
    /\ productLinks = <<>>
    /\ jobs = NoChan
    /\ results = NoChan
    /\ wg = 0
    /\ spawned = 0
    /\ enq = 0
    /\ wpc = [w \in Workers |-> "unborn"]
    /\ wurl = [w \in Workers |-> <<>>]
    /\ wprod = [w \in Workers |-> EmptyProduct]
    /\ taskCtx = [w \in Workers |-> 0]
    /\ ctxs = [c \in {0} \cup Workers |->
                 IF c = 0 THEN [state |-> "open", users |-> {}]
                 ELSE [state |-> "none", users |-> {}]]
    /\ finalProducts = <<>>
    /\ csv = <<>>
    /\ logs = EmptyBag
    /\ scraped = EmptyBag
    /\ sent = EmptyBag
    /\ scrapeCtx = [w \in Workers |-> NoCtx]
    /\ writer = NoWriter

\* Start has created allocCtx and ctx (lines 81-90) and is about to call
\* discoverProductLinks.
Init ==
    /\ nWorkers \in 1..numWorkers
    /\ page \in PoolPages
    /\ pc = "navigate"
    /\ InitPool
    /\ trace = NoTrace
    /\ colly = NoCall
    /\ zen = NoCall
    /\ call = NoCall
    /\ get = NoCall

(***************************************************************************)
(* chromedp contexts.  ctx of Start is context 0; chromedp.NewContext      *)
(* makes a context (a browser tab of its own) that no one else holds.      *)
(* context.WithTimeout derives a deadline, not a new tab.  The users of a  *)
(* context are the goroutines that ran browser actions on it: 0 is Start   *)
(* (discoverProductLinks), w > 0 is worker w.                              *)
(***************************************************************************)
\* The context worker w makes is context w.
Created(cs, c) == [cs EXCEPT ![c].state = "open"]
UsedBy(cs, c, who) == [cs EXCEPT ![c].users = @ \cup {who}]
\* cancel() of a context.
CancelMissing(cs, c) == cs

Cancelled(cs, c) == [cs EXCEPT ![c].state = "cancelled"]

\* The context a worker hands to scrapeProductPage (line 141).
WorkerCtxOfStart(w) == 0

WorkerCtx(w) == taskCtx[w]

(***************************************************************************)
(* discoverProductLinks (called at line 93).                               *)
(***************************************************************************)
\* What no step of Start and of the workers changes: the size of the pool,
\* the page, and the calls that are modelled on their own.
startVars == <<nWorkers, page, call, get, colly, zen>>

\* chromedp.Navigate(url) succeeded.
Navigate ==
    /\ pc = "navigate"
    /\ pc' = "scroll"
    /\ scrollI' = 0
    /\ ctxs' = UsedBy(ctxs, 0, 0)
    /\ UNCHANGED <<productLinks, poolVars, writer, startVars>>

\* One round of the scroll loop: scroll to the bottom, sleep 2 s.
Scroll ==
    /\ pc = "scroll"
    /\ scrollI < scrolls
    /\ scrollI' = scrollI + 1
    /\ pc' = IF scrollI + 1 < scrolls THEN "scroll" ELSE "evaluate"
    /\ UNCHANGED <<productLinks, ctxs, poolVars, writer, startVars>>

\* The anchors are read into links, deduplicated, and returned to Start.
Evaluate ==
    /\ pc = "evaluate"
    /\ LET links == page
       IN  productLinks' = Unique(links)
    /\ pc' = "check"
    /\ UNCHANGED <<scrollI, ctxs, poolVars, writer, startVars>>

\* A browser action fails or the 2 minute deadline passes: chromedp.Run
\* returns an error, discoverProductLinks returns (nil, err) and Start ends
\* in log.Fatalf.
DiscoverFailRetries ==
    /\ pc \in {"navigate", "scroll", "evaluate"}
    /\ pc' = "navigate"
    /\ UNCHANGED <<scrollI, productLinks, ctxs, poolVars, writer, startVars>>

DiscoverFail ==
    /\ pc \in {"navigate", "scroll", "evaluate"}
    /\ pc' = "fatal"
    /\ UNCHANGED <<scrollI, productLinks, ctxs, poolVars, writer, startVars>>

(***************************************************************************)
(* Start, lines 99-132.                                                    *)
(***************************************************************************)
\* if len(productLinks) == 0 { log.Fatalf(...) }
NoLinksIgnored ==
    /\ pc = "check"
    /\ Len(productLinks) = 0
    /\ jobs' = MakeChan(Len(productLinks))
    /\ results' = MakeChan(Len(productLinks))
    /\ pc' = "spawn"
    /\ UNCHANGED <<scrollI, productLinks, ctxs, wg, spawned, enq, wpc, wurl,
                   wprod, taskCtx, finalProducts, csv, logs, scraped, sent,
                   scrapeCtx, trace, writer, startVars>>

NoLinks ==
    /\ pc = "check"
    /\ Len(productLinks) = 0
    /\ pc' = "fatal"
    /\ UNCHANGED <<scrollI, productLinks, ctxs, poolVars, writer, startVars>>

\* The capacity of jobs and of results: len(productLinks); and the capacity of
\* an unbuffered channel.
JobsUnbuffered == Len(<<>>)

JobsCap == Len(productLinks)

ResultsUnbuffered == Len(<<>>)

ResultsCap == Len(productLinks)

\* jobs := make(chan string, n); results := make(chan Product, n)
MakeChans ==
    /\ pc = "check"
    /\ Len(productLinks) # 0
    /\ jobs' = MakeChan(JobsCap)
    /\ results' = MakeChan(ResultsCap)
    /\ pc' = "spawn"
    /\ UNCHANGED <<scrollI, productLinks, ctxs, wg, spawned, enq, wpc, wurl,
                   wprod, taskCtx, finalProducts, csv, logs, scraped, sent,
                   scrapeCtx, trace, writer, startVars>>

\* One round of the loop of lines 108-111: wg.Add(1); go worker(i, ...).
Spawn ==
    /\ pc = "spawn"
    /\ spawned < nWorkers
    /\ wg' = wg + 1
    /\ spawned' = spawned + 1
    /\ wpc' = [wpc EXCEPT ![spawned + 1] = "start"]
    /\ pc' = IF spawned + 1 < nWorkers THEN "spawn" ELSE "enqueue"
    /\ UNCHANGED <<scrollI, productLinks, ctxs, jobs, results, enq, wurl,
                   wprod, taskCtx, finalProducts, csv, logs, scraped, sent,
                   scrapeCtx, trace, writer, startVars>>

\* The loop of lines 113-118 is over: the range is exhausted or i reached
\* productTarget.
EnqueueDoneNoCap(i) == i >= Len(productLinks)

\* The loop with the comparison "i > productTarget".
EnqueueDoneOffByOne(i) == i >= Len(productLinks) \/ i > productTarget

EnqueueDone(i) == i >= Len(productLinks) \/ i >= productTarget

\* jobs <- link
Enqueue ==
    /\ pc = "enqueue"
    /\ ~EnqueueDone(enq)
    /\ CanSend(jobs)
    /\ jobs' = SendOn(jobs, productLinks[enq + 1])
    /\ enq' = enq + 1
    /\ pc' = IF EnqueueDone(enq + 1) THEN "close_jobs" ELSE "enqueue"
    /\ UNCHANGED <<scrollI, productLinks, ctxs, results, wg, spawned, wpc,
                   wurl, wprod, taskCtx, finalProducts, csv, logs, scraped,
                   sent, scrapeCtx, trace, writer, startVars>>

\* close(jobs)
CloseJobs ==
    /\ pc = "close_jobs"
    /\ jobs' = CloseChan(jobs)
    /\ pc' = "wait"
    /\ UNCHANGED <<scrollI, productLinks, ctxs, results, wg, spawned, enq,
                   wpc, wurl, wprod, taskCtx, finalProducts, csv, logs,
                   scraped, sent, scrapeCtx, trace, writer, startVars>>

\* wg.Wait() returns when the counter is zero.
WaitReturnsAtOnce == TRUE

WaitReturns == wg = 0

Wait ==
    /\ pc = "wait"
    /\ WaitReturns
    /\ pc' = "close_results"
    /\ UNCHANGED <<scrollI, productLinks, ctxs, poolVars, writer, startVars>>

\* close(results)
CloseResults ==
    /\ pc = "close_results"
    /\ results' = CloseChan(results)
    /\ pc' = "aggregate"
    /\ UNCHANGED <<scrollI, productLinks, ctxs, jobs, wg, spawned, enq, wpc,
                   wurl, wprod, taskCtx, finalProducts, csv, logs, scraped,
                   sent, scrapeCtx, trace, writer, startVars>>

\* finalProducts = append(finalProducts, product)
AppendProductOverwrite(fp, product) == <<product>>

AppendProduct(fp, product) == Append(fp, product)

\* One round of "for product := range results".
Aggregate ==
    /\ pc = "aggregate"
    /\ CanRecv(results)
    /\ finalProducts' = AppendProduct(finalProducts, Head(results.buf))
    /\ results' = RecvFrom(results)
    /\ UNCHANGED <<pc, scrollI, productLinks, ctxs, jobs, wg, spawned, enq,
                   wpc, wurl, wprod, taskCtx, csv, logs, scraped, sent,
                   scrapeCtx, trace, writer, startVars>>

\* The range loop ends: results is closed and drained.
AggregateEnd ==
    /\ pc = "aggregate"
    /\ Drained(results)
    /\ pc' = "write"
    /\ UNCHANGED <<scrollI, productLinks, ctxs, poolVars, writer, startVars>>

(***************************************************************************)
(* worker, lines 134-149.                                                  *)
(***************************************************************************)
\* The errors chromedp.Run returns to scrapeProductPage: a browser action
\* failed, or the 60 s deadline passed while one was waiting.
ScrapeErrors == {"action failed", "deadline exceeded"}

\* scrapeCtx, cancel := context.WithTimeout(ctx, 60*time.Second): a context
\* of its own, derived from ctx, whose 60 s start to run at the call.
WithTimeoutElapsed(ctx) == [state |-> "expired", parent |-> ctx]

WithTimeout(ctx) == [state |-> "live", parent |-> ctx]

\* taskCtx, cancel := chromedp.NewContext(ctx)
NewContext(w) ==
    /\ wpc[w] = "start"
    /\ taskCtx' = [taskCtx EXCEPT ![w] = w]
    /\ ctxs' = Created(ctxs, w)
    /\ wpc' = [wpc EXCEPT ![w] = "recv"]
    /\ UNCHANGED <<pc, scrollI, productLinks, jobs, results, wg, spawned, enq,
                   wurl, wprod, finalProducts, csv, logs, scraped, sent,
                   scrapeCtx, trace, writer, startVars>>

\* "for url := range jobs" receives a job and calls scrapeProductPage, which
\* sets p.URL and p.ProductID, derives scrapeCtx and starts chromedp.Run.
Receive(w) ==
    /\ wpc[w] = "recv"
    /\ CanRecv(jobs)
    /\ LET url == Head(jobs.buf)
       IN  /\ wurl' = [wurl EXCEPT ![w] = url]
           /\ wprod' = [wprod EXCEPT ![w] = NewProduct(url)]
           /\ scraped' = scraped (+) SetToBag({url})
    /\ jobs' = RecvFrom(jobs)
    /\ ctxs' = UsedBy(ctxs, WorkerCtx(w), w)
    /\ scrapeCtx' = [scrapeCtx EXCEPT ![w] = WithTimeout(WorkerCtx(w))]
    /\ trace' = Dequeued(trace, w, Head(jobs.buf))
    /\ wpc' = [wpc EXCEPT ![w] = "run"]
    /\ UNCHANGED <<pc, scrollI, productLinks, results, wg, spawned, enq,
                   taskCtx, finalProducts, csv, logs, sent, writer,
                   startVars>>

\* chromedp.Run returned nil before the deadline: scrapeProductPage returns
\* (p, nil), its deferred cancel() ends scrapeCtx.
ScrapeOK(w) ==
    /\ wpc[w] = "run"
    /\ scrapeCtx[w].state = "live"
    /\ wprod' = [wprod EXCEPT ![w] = Fill(wprod[w], wurl[w])]
    /\ scrapeCtx' = [scrapeCtx EXCEPT ![w] = NoCtx]
    /\ wpc' = [wpc EXCEPT ![w] = "send"]
    /\ UNCHANGED <<pc, scrollI, productLinks, ctxs, jobs, results, wg,
                   spawned, enq, wurl, taskCtx, finalProducts, csv, logs,
                   scraped, sent, trace, writer, startVars>>

\* Where the worker goes after a failed job: "continue".
AfterFailureExit == "done"

AfterFailure == "recv"

\* The worker without the log.Printf of line 143.
ScrapeFailSilent(w) ==
    /\ wpc[w] = "run"
    /\ scrapeCtx' = [scrapeCtx EXCEPT ![w] = NoCtx]
    /\ wprod' = [wprod EXCEPT ![w] = EmptyProduct]
    /\ wurl' = [wurl EXCEPT ![w] = <<>>]
    /\ wpc' = [wpc EXCEPT ![w] = "recv"]
    /\ UNCHANGED <<pc, scrollI, productLinks, ctxs, jobs, results, wg,
                   spawned, enq, taskCtx, finalProducts, csv, logs, scraped,
                   sent, trace, writer, startVars>>

\* chromedp.Run returned an error (an action failed, or the deadline of
\* scrapeCtx passed): scrapeProductPage returns (Product{}, err), its deferred
\* cancel() ends scrapeCtx, the worker logs the line of line 143 and continues
\* with the next job.
ScrapeFail(w) ==
    /\ wpc[w] = "run"
    /\ \E err \in ScrapeErrors :
         /\ err = "action failed" => scrapeCtx[w].state = "live"
         /\ logs' = logs (+) SetToBag({[url |-> wurl[w], err |-> err]})
    /\ scrapeCtx' = [scrapeCtx EXCEPT ![w] = NoCtx]
    /\ trace' = Completed(trace, w, wurl[w], FALSE)
    /\ wprod' = [wprod EXCEPT ![w] = EmptyProduct]
    /\ wurl' = [wurl EXCEPT ![w] = <<>>]
    /\ wpc' = [wpc EXCEPT ![w] = AfterFailure]
    /\ UNCHANGED <<pc, scrollI, productLinks, ctxs, jobs, results, wg,
                   spawned, enq, taskCtx, finalProducts, csv, scraped, sent,
                   writer, startVars>>

\* A worker that gives its record up when the results channel already holds
\* one (a send under select with a default branch).
SendOrDrop(w) ==
    /\ wpc[w] = "send"
    /\ results' = IF Len(results.buf) = 0 /\ CanSend(results)
                  THEN SendOn(results, wprod[w])
                  ELSE results
    /\ sent' = sent (+) SetToBag({wprod[w]})
    /\ trace' = Completed(trace, w, wurl[w], TRUE)
    /\ wprod' = [wprod EXCEPT ![w] = EmptyProduct]
    /\ wurl' = [wurl EXCEPT ![w] = <<>>]
    /\ wpc' = [wpc EXCEPT ![w] = "recv"]
    /\ UNCHANGED <<pc, scrollI, productLinks, ctxs, jobs, wg, spawned, enq,
                   taskCtx, finalProducts, csv, logs, scraped, scrapeCtx,
                   writer, startVars>>

\* results <- product
Send(w) ==
    /\ wpc[w] = "send"
    /\ CanSend(results)
    /\ results' = SendOn(results, wprod[w])
    /\ sent' = sent (+) SetToBag({wprod[w]})
    /\ trace' = Completed(trace, w, wurl[w], TRUE)
    /\ wprod' = [wprod EXCEPT ![w] = EmptyProduct]
    /\ wurl' = [wurl EXCEPT ![w] = <<>>]
    /\ wpc' = [wpc EXCEPT ![w] = "recv"]
    /\ UNCHANGED <<pc, scrollI, productLinks, ctxs, jobs, wg, spawned, enq,
                   taskCtx, finalProducts, csv, logs, scraped, scrapeCtx,
                   writer, startVars>>

\* jobs is closed and drained: the range loop ends and the deferred cancel()
\* of taskCtx runs.
RangeEnd(w) ==
    /\ wpc[w] = "recv"
    /\ Drained(jobs)
    /\ ctxs' = Cancelled(ctxs, taskCtx[w])
    /\ wpc' = [wpc EXCEPT ![w] = "done"]
    /\ UNCHANGED <<pc, scrollI, productLinks, jobs, results, wg, spawned, enq,
                   wurl, wprod, taskCtx, finalProducts, csv, logs, scraped,
                   sent, scrapeCtx, trace, writer, startVars>>

\* The deferred wg.Done().
WgDoneMissing(n) == n

WgDone(n) == n - 1

Done(w) ==
    /\ wpc[w] = "done"
    /\ wg' = WgDone(wg)
    /\ wpc' = [wpc EXCEPT ![w] = "exited"]
    /\ UNCHANGED <<pc, scrollI, productLinks, ctxs, jobs, results, spawned,
                   enq, wurl, wprod, taskCtx, finalProducts, csv, logs,
                   scraped, sent, scrapeCtx, trace, writer, startVars>>

(***************************************************************************)
(* writeCSV, lines 251-288.                                                *)
(***************************************************************************)
\* headers := []string{...}
Header ==
    <<"URL", "ProductID", "Name", "Price", "ImageURL", "Breadcrumb",
      "DescriptionGeneral", "DescriptionTitle", "DescriptionItemized",
      "AvailableSizes", "SenseOfSize", "Keywords", "SizeChartJSON",
      "ReviewsJSON", "OverallRating", "NumberOfReviews", "RecommendedRate",
      "CoordinatedProductsJSON">>

\* row := []string{p.URL, p.ProductID, ...}
Row(p) ==
    <<p.URL, p.ProductID, p.Name, p.Price, p.ImageURL, p.Breadcrumb,
      p.DescriptionGeneral, p.DescriptionTitle, p.DescriptionItemized,
      p.AvailableSizes, p.SenseOfSize, p.Keywords, p.SizeChartJSON,
      p.ReviewsJSON, p.OverallRating, p.NumberOfReviews, p.RecommendedRate,
      p.CoordinatedProductsJSON>>

\* What no step of writeCSV changes.
writeOther ==
    <<scrollI, productLinks, ctxs, jobs, results, wg, spawned, enq, wpc,
      wurl, wprod, taskCtx, finalProducts, logs, scraped, sent, scrapeCtx,
      trace, startVars>>

\* os.MkdirAll and os.Create succeeded.
CreateFile ==
    /\ pc = "write"
    /\ writer' = [writer EXCEPT !.file = "created"]
    /\ pc' = "header"
    /\ UNCHANGED <<csv, writeOther>>

\* os.MkdirAll or os.Create failed: log.Fatalf.
CreateFail ==
    /\ pc = "write"
    /\ pc' = "fatal_csv"
    /\ UNCHANGED <<csv, writer, writeOther>>

\* writer.Write(headers) succeeded.
WriteHeaderMissing ==
    /\ pc = "header"
    /\ pc' = "rows"
    /\ UNCHANGED <<csv, writer, writeOther>>

WriteHeader ==
    /\ pc = "header"
    /\ csv' = Append(csv, Header)
    /\ pc' = "rows"
    /\ UNCHANGED <<writer, writeOther>>

\* writer.Write(headers) failed: log.Fatalf.
WriteHeaderFail ==
    /\ pc = "header"
    /\ pc' = "fatal_csv"
    /\ UNCHANGED <<csv, writer, writeOther>>

\* Where "for _, p := range products" goes after a row whose write failed:
\* to the next product.
AfterRowFailureStop(i) == Len(finalProducts)

AfterRowFailure(i) == i + 1

\* writer.Write(row) succeeded for the next product.
WriteRow ==
    /\ pc = "rows"
    /\ writer.i < Len(finalProducts)
    /\ csv' = Append(csv, Row(finalProducts[writer.i + 1]))
    /\ writer' = [writer EXCEPT !.i = writer.i + 1]
    /\ UNCHANGED <<pc, writeOther>>

\* writer.Write(row) failed for the next product: the warning of line 284
\* is logged (kept here with the place of the product in the collection).
WriteRowFail ==
    /\ pc = "rows"
    /\ writer.i < Len(finalProducts)
    /\ writer' = [writer EXCEPT
                    !.i = AfterRowFailure(writer.i),
                    !.warned = Append(@, [at |-> writer.i + 1,
                                          name |-> finalProducts[writer.i + 1].Name])]
    /\ UNCHANGED <<pc, csv, writeOther>>

\* The range loop is over: writeCSV returns, the deferred Flush and Close
\* run, and Start returns.
WriteEnd ==
    /\ pc = "rows"
    /\ writer.i = Len(finalProducts)
    /\ writer' = [writer EXCEPT !.file = "closed"]
    /\ pc' = "end"
    /\ UNCHANGED <<csv, writeOther>>

Next ==
    \/ Navigate
    \/ Scroll
    \/ Evaluate
    \/ DiscoverFail
    \/ NoLinks
    \/ MakeChans
    \/ Spawn
    \/ Enqueue
    \/ CloseJobs
    \/ Wait
    \/ CloseResults
    \/ Aggregate
    \/ AggregateEnd
    \/ CreateFile
    \/ CreateFail
    \/ WriteHeader
    \/ WriteHeaderFail
    \/ WriteRow
    \/ WriteRowFail
    \/ WriteEnd
    \/ \E w \in Workers : NewContext(w)
    \/ \E w \in Workers : Receive(w)
    \/ \E w \in Workers : ScrapeOK(w)
    \/ \E w \in Workers : ScrapeFail(w)
    \/ \E w \in Workers : Send(w)
    \/ \E w \in Workers : RangeEnd(w)
    \/ \E w \in Workers : Done(w)

Spec == Init /\ [][Next]_vars

(***************************************************************************)
(* OrderSpec: the run of a pool of up to MaxTraced workers with the        *)
(* history of the jobs kept.                                               *)
(***************************************************************************)
InitOrder ==
    /\ nWorkers \in 1..MaxTraced
    /\ page \in PoolPages
    /\ pc = "navigate"
    /\ InitPool
    /\ trace = [on |-> TRUE, deq |-> [w \in Workers |-> <<>>], out |-> <<>>]
    /\ call = NoCall
    /\ get = NoCall
    /\ colly = NoCall
    /\ zen = NoCall

OrderSpec == InitOrder /\ [][Next]_vars

(***************************************************************************)
(* DiscoverSpec: Start up to the start of the pool, for every list of      *)
(* anchors.                                                                *)
(***************************************************************************)
InitDiscover ==
    /\ nWorkers = numWorkers
    /\ page \in Pages
    /\ pc = "navigate"
    /\ InitPool
    /\ trace = NoTrace
    /\ colly = NoCall
    /\ zen = NoCall
    /\ call = NoCall
    /\ get = NoCall

NextDiscover ==
    \/ Navigate
    \/ Scroll
    \/ Evaluate
    \/ DiscoverFail
    \/ NoLinks
    \/ MakeChans

DiscoverSpec == InitDiscover /\ [][NextDiscover]_vars

(***************************************************************************)
(* scrapeProductPage, lines 192-249, one browser action at a time.         *)
(***************************************************************************)
\* The actions handed to chromedp.Run, lines 212-237, with the field of p or
\* the local variable each one writes.
ActionsReadFirst ==
    <<[kind |-> "Text", into |-> "Name"],
      [kind |-> "Navigate", into |-> ""],
      [kind |-> "WaitReady", into |-> ""],
      [kind |-> "Evaluate", into |-> "sizeChartRaw"],
      [kind |-> "Click", into |-> ""],
      [kind |-> "WaitVisible", into |-> ""]>>

Actions ==
    <<[kind |-> "Navigate", into |-> ""],
      [kind |-> "WaitReady", into |-> ""],
      [kind |-> "Text", into |-> "Name"],
      [kind |-> "Text", into |-> "Breadcrumb"],
      [kind |-> "Text", into |-> "Price"],
      [kind |-> "Text", into |-> "DescriptionTitle"],
      [kind |-> "Text", into |-> "DescriptionGeneral"],
      [kind |-> "Text", into |-> "DescriptionItemized"],
      [kind |-> "Text", into |-> "SenseOfSize"],
      [kind |-> "Text", into |-> "OverallRating"],
      [kind |-> "Text", into |-> "NumberOfReviews"],
      [kind |-> "Text", into |-> "RecommendedRate"],
      [kind |-> "AttributeValue", into |-> "ImageURL"],
      [kind |-> "Evaluate", into |-> "AvailableSizes"],
      [kind |-> "Evaluate", into |-> "Keywords"],
      [kind |-> "Evaluate", into |-> "coordinatedRaw"],
      [kind |-> "Evaluate", into |-> "reviewsRaw"],
      [kind |-> "Click", into |-> ""],
      [kind |-> "WaitVisible", into |-> ""],
      [kind |-> "Evaluate", into |-> "sizeChartRaw"]>>

\* The locals sizeChartRaw, reviewsRaw, coordinatedRaw and the field each is
\* copied to at lines 244-246.
RawField ==
    [sizeChartRaw |-> "SizeChartJSON", reviewsRaw |-> "ReviewsJSON",
     coordinatedRaw |-> "CoordinatedProductsJSON"]

NoRaw == [sizeChartRaw |-> "", reviewsRaw |-> "", coordinatedRaw |-> ""]

\* The path segments and the query a URL is made of.
Segments == { <<>>, <<"x">>, <<"1", "2">> }
Queries == { <<>>, <<"?", "c">> }

RECURSIVE PathOf(_)
PathOf(segs) ==
    IF Len(segs) = 0 THEN <<>>
    ELSE <<Slash>> \o Head(segs) \o PathOf(Tail(segs))

URLOf(segs, query) == Origin \o PathOf(segs) \o query

Paths == UNION { [1..n -> Segments] : n \in 0..MaxSegs }

\* scrapeProductPage(ctx, url) is called.
InitScrape ==
    /\ nWorkers = numWorkers
    /\ page = <<>>
    /\ pc = "none"
    /\ InitPool
    /\ trace = NoTrace
    /\ colly = NoCall
    /\ zen = NoCall
    /\ get = NoCall
    /\ \E segs \in Paths, query \in Queries :
         call = [state |-> "entry", segs |-> segs, query |-> query,
                 url |-> URLOf(segs, query), p |-> EmptyProduct,
                 raw |-> NoRaw, step |-> 0, ret |-> EmptyProduct,
                 err |-> "nil"]

scrapeOther ==
    <<nWorkers, page, pc, scrollI, productLinks, ctxs, poolVars, writer, get,
      colly, zen>>

\* Lines 193-201: var p Product; p.URL = url; p.ProductID = ...
CallEntry ==
    /\ call.state = "entry"
    /\ call' = [call EXCEPT !.state = "running", !.p = NewProduct(call.url)]
    /\ UNCHANGED scrapeOther

\* What one action that succeeds writes.
ApplyAction(c, a) ==
    IF a.into \in TextFieldSet
    THEN [c EXCEPT !.p[a.into] = PageValue(c.url, a.into)]
    ELSE IF a.into \in DOMAIN RawField
         THEN [c EXCEPT !.raw[a.into] = PageValue(c.url, RawField[a.into])]
         ELSE c

\* The next action of chromedp.Run succeeds.
ActionOK ==
    /\ call.state = "running"
    /\ call.step < Len(Actions)
    /\ call' = [ApplyAction(call, Actions[call.step + 1])
                  EXCEPT !.step = call.step + 1]
    /\ UNCHANGED scrapeOther

\* What scrapeProductPage returns when chromedp.Run returned an error.
FailureReturnsPartial(c) == c.p

FailureReturns(c) == EmptyProduct

\* The next action fails, or the deadline passes during it: chromedp.Run
\* stops and returns the error, scrapeProductPage returns (Product{}, err).
ActionFail ==
    /\ call.state = "running"
    /\ call.step < Len(Actions)
    /\ \E err \in ScrapeErrors :
         call' = [call EXCEPT !.state = "returned",
                              !.ret = FailureReturns(call), !.err = err]
    /\ UNCHANGED scrapeOther

\* Lines 244-248: the three JSON texts are copied and p is returned.
CallReturn ==
    /\ call.state = "running"
    /\ call.step = Len(Actions)
    /\ LET p == [call.p EXCEPT
                   !.SizeChartJSON = call.raw.sizeChartRaw,
                   !.ReviewsJSON = call.raw.reviewsRaw,
                   !.CoordinatedProductsJSON = call.raw.coordinatedRaw]
       IN  call' = [call EXCEPT !.state = "returned", !.p = p, !.ret = p]
    /\ UNCHANGED scrapeOther

NextScrape ==
    \/ CallEntry
    \/ ActionOK
    \/ ActionFail
    \/ CallReturn

ScrapeSpec == InitScrape /\ [][NextScrape]_vars

(***************************************************************************)
(* getProductDataFromFile (package scraper of the ZenRows variant), one    *)
(* step at a time.                                                         *)
(***************************************************************************)
\* "recs/api/products"
Pattern ==
    <<"r", "e", "c", "s", "/", "a", "p", "i", "/",
      "p", "r", "o", "d", "u", "c", "t", "s">>

\* strings.Contains(s, substr)
ContainsFirstOf(s, substr) ==
    \E i \in 1..Len(s) : s[i] = Head(substr)

Contains(s, substr) ==
    \E i \in 0..(Len(s) - Len(substr)) :
        SubSeq(s, i + 1, i + Len(substr)) = substr

\* The URLs of the intercepted exchanges: two of the data endpoint, and two
\* others, one of them close to it.
ApiURLs ==
    { <<"h", "/">> \o Pattern \o <<"?", "x">>,
      Pattern }
OtherURLs ==
    { <<"h", "/", "r", "e", "c", "s", "/", "a", "p", "i", "/", "p">>,
      <<"h", "/", "t", "r", "a", "c", "k">> }

\* The bodies: one that is not JSON and two that are, with what they hold
\* under the keys "recommendations" and "json_breadcrumbs".
Bodies ==
    { [json |-> FALSE, recommendations |-> <<>>, json_breadcrumbs |-> <<>>],
      [json |-> TRUE, recommendations |-> <<"a">>,
       json_breadcrumbs |-> <<"m">>],
      [json |-> TRUE, recommendations |-> <<"b", "c">>,
       json_breadcrumbs |-> <<>>] }

\* type XHRResponse
XHRResponses == [URL : ApiURLs \cup OtherURLs, Body : Bodies]

\* The lists zenRowsResp.XHR of the file.
XHRLists == UNION { [1..n -> XHRResponses] : n \in 0..MaxXHR }

\* getProductDataFromFile(filename) is called: the file cannot be opened,
\* read or unmarshalled, or it holds a list of exchanges.
InitFile ==
    /\ nWorkers = numWorkers
    /\ page = <<>>
    /\ pc = "none"
    /\ InitPool
    /\ trace = NoTrace
    /\ colly = NoCall
    /\ zen = NoCall
    /\ call = NoCall
    /\ \E ok \in BOOLEAN, xhr \in XHRLists :
         /\ ~ok => xhr = <<>>
         /\ get = [state |-> "entry", ok |-> ok, XHR |-> xhr, i |-> 0,
                   unmarshalled |-> {}, allProducts |-> <<>>,
                   breadcrumbs |-> <<>>, err |-> "nil"]

fileOther ==
    <<nWorkers, page, pc, scrollI, productLinks, ctxs, poolVars, writer, call,
      colly, zen>>

\* os.Open, io.ReadAll or json.Unmarshal of the file fails.
FileFail ==
    /\ get.state = "entry"
    /\ ~get.ok
    /\ get' = [get EXCEPT !.state = "returned", !.err = "file"]
    /\ UNCHANGED fileOther

\* The file is read and unmarshalled into zenRowsResp.
FileRead ==
    /\ get.state = "entry"
    /\ get.ok
    /\ get' = [get EXCEPT !.state = "loop"]
    /\ UNCHANGED fileOther

\* One round of the range loop for an item whose URL does not contain the
\* pattern.
SkipItem ==
    /\ get.state = "loop"
    /\ get.i < Len(get.XHR)
    /\ ~Contains(get.XHR[get.i + 1].URL, Pattern)
    /\ get' = [get EXCEPT !.i = get.i + 1]
    /\ UNCHANGED fileOther

\* One round for an item whose URL contains the pattern and whose body
\* json.Unmarshal rejects: the loop goes on.
UnmarshalFail ==
    /\ get.state = "loop"
    /\ get.i < Len(get.XHR)
    /\ Contains(get.XHR[get.i + 1].URL, Pattern)
    /\ ~get.XHR[get.i + 1].Body.json
    /\ get' = [get EXCEPT !.i = get.i + 1,
                          !.unmarshalled = @ \cup {get.i + 1}]
    /\ UNCHANGED fileOther

\* One round for an item whose URL contains the pattern and whose body
\* unmarshals: its recommendations and breadcrumbs are returned.
UnmarshalOK ==
    /\ get.state = "loop"
    /\ get.i < Len(get.XHR)
    /\ Contains(get.XHR[get.i + 1].URL, Pattern)
    /\ get.XHR[get.i + 1].Body.json
    /\ get' = [get EXCEPT
                 !.state = "returned",
                 !.i = get.i + 1,
                 !.unmarshalled = @ \cup {get.i + 1},
                 !.allProducts = get.XHR[get.i + 1].Body.recommendations,
                 !.breadcrumbs = get.XHR[get.i + 1].Body.json_breadcrumbs]
    /\ UNCHANGED fileOther

\* The loop ends without a return: the error of line 268.
NoProductData ==
    /\ get.state = "loop"
    /\ get.i = Len(get.XHR)
    /\ get' = [get EXCEPT !.state = "returned", !.err = "no product data"]
    /\ UNCHANGED fileOther

NextFile ==
    \/ FileFail
    \/ FileRead
    \/ SkipItem
    \/ UnmarshalFail
    \/ UnmarshalOK
    \/ NoProductData

FileSpec == InitFile /\ [][NextFile]_vars

(***************************************************************************)
(* Start of the colly variant, src/pkg/scraper/scraper.go.  The collector  *)
(* c visits the listing page; its callback on ".item-box" calls            *)
(* productCollector.Visit for every product link; the callback of          *)
(* productCollector on "html" builds a record and appends it to products.  *)
(* A visit is a record [n, ctx, at]: the place of its item, the goroutine  *)
(* that runs its request and callbacks, and "fetch" or "append".           *)
(***************************************************************************)
\* The item boxes of the listing page: a product link or another link.
ItemLists ==
    UNION { [1..n -> {"product", "other"}] : n \in 0..MaxItems }

\* A collector made with colly.Async(true) runs every visit in a goroutine
\* of its own.
VisitContextAsync(n) == n

\* The goroutine that runs the n-th visit: the collectors are made without
\* colly.Async, so Visit fetches and runs the callbacks in the goroutine of
\* its caller, Start (0), and returns when they are done.
VisitContext(n) == 0

InitColly ==
    /\ nWorkers = numWorkers
    /\ page = <<>>
    /\ pc = "colly"
    /\ InitPool
    /\ trace = NoTrace
    /\ call = NoCall
    /\ get = NoCall
    /\ zen = NoCall
    /\ \E its \in ItemLists :
         colly = [state |-> "visit", items |-> its, i |-> 0, pending |-> {},
                  products |-> <<>>, by |-> <<>>, rows |-> <<>>]

collyOther ==
    <<nWorkers, page, pc, scrollI, productLinks, ctxs, poolVars, writer,
      call, get, zen>>

\* c.Visit returned an error: log.Fatalf.
CollyVisitFail ==
    /\ colly.state = "visit"
    /\ colly' = [colly EXCEPT !.state = "fatal"]
    /\ UNCHANGED collyOther

\* The listing page arrived: the callbacks on its item boxes run.
CollyVisitOK ==
    /\ colly.state = "visit"
    /\ colly' = [colly EXCEPT !.state = "items"]
    /\ UNCHANGED collyOther

\* The callback on the next item box: a product link is visited with
\* productCollector, another link is skipped.  The callback of the item
\* before it has returned, so no visit is left in the goroutine of Start.
CollyItem ==
    /\ colly.state = "items"
    /\ colly.i < Len(colly.items)
    /\ \A v \in colly.pending : v.ctx # 0
    /\ LET n == colly.i + 1
       IN  colly' = [colly EXCEPT
                       !.i = n,
                       !.pending =
                           IF colly.items[n] = "product"
                           THEN @ \cup {[n |-> n, ctx |-> VisitContext(n),
                                         at |-> "fetch"]}
                           ELSE @]
    /\ UNCHANGED collyOther

\* The request of a visit failed: OnError logs it, no record is made.
CollyFetchFail ==
    /\ colly.state = "items"
    /\ \E v \in colly.pending :
         /\ v.at = "fetch"
         /\ colly' = [colly EXCEPT !.pending = @ \ {v}]
    /\ UNCHANGED collyOther

\* The product page arrived: the callback on "html" fills a record and
\* comes to "products = append(products, product)".
CollyAppendBegin ==
    /\ colly.state = "items"
    /\ \E v \in colly.pending :
         /\ v.at = "fetch"
         /\ colly' = [colly EXCEPT
                        !.pending = (@ \ {v}) \cup {[v EXCEPT !.at = "append"]}]
    /\ UNCHANGED collyOther

\* The append is done and the visit returns.
CollyAppendEnd ==
    /\ colly.state = "items"
    /\ \E v \in colly.pending :
         /\ v.at = "append"
         /\ colly' = [colly EXCEPT
                        !.pending = @ \ {v},
                        !.products = Append(@, v.n),
                        !.by = Append(@, v.ctx)]
    /\ UNCHANGED collyOther

\* Every item box is handled; c.Wait() and productCollector.Wait() return
\* when no visit is left.
CollyWait ==
    /\ colly.state = "items"
    /\ colly.i = Len(colly.items)
    /\ colly.pending = {}
    /\ colly' = [colly EXCEPT !.state = "csv"]
    /\ UNCHANGED collyOther

\* os.MkdirAll or os.Create failed: log.Fatalf.
CollyCSVFail ==
    /\ colly.state = "csv"
    /\ colly' = [colly EXCEPT !.state = "fatal"]
    /\ UNCHANGED collyOther

\* The header and one row per record of products are written.
CollyCSV ==
    /\ colly.state = "csv"
    /\ colly' = [colly EXCEPT !.state = "end", !.rows = colly.products]
    /\ UNCHANGED collyOther

NextColly ==
    \/ CollyVisitFail
    \/ CollyVisitOK
    \/ CollyItem
    \/ CollyFetchFail
    \/ CollyAppendBegin
    \/ CollyAppendEnd
    \/ CollyWait
    \/ CollyCSVFail
    \/ CollyCSV

(***************************************************************************)
(* CollectSpec: the runs of the two variants that keep their records in a  *)
(* collection: the worker pool and the colly collectors.                   *)
(***************************************************************************)
InitCollect == Init \/ InitColly

NextCollect == Next \/ NextColly

CollectSpec == InitCollect /\ [][NextCollect]_vars

(***************************************************************************)
(* main of the ZenRows variant (src/unnamed/part_000, lines 10-34) with    *)
(* ScrapeAndSaveToJSON and ProcessJSONAndWriteToCSV (src/unnamed/part_001).*)
(* zen.file is the file sample.json: "absent", "stale" (left by an earlier *)
(* run), "empty" (created or truncated by this run), "partial" or          *)
(* "written" with the body of the response.  zen.steps are the steps main  *)
(* has called.                                                             *)
(***************************************************************************)
\* http.StatusOK
StatusOK == 200

\* The status codes of the responses of the ZenRows API.
Statuses == {StatusOK, 403, 500}

\* The bodies of the responses: what json.Unmarshal rejects, or a list of
\* intercepted exchanges.
NoBody == [ok |-> FALSE, XHR |-> <<>>]
ZenBodies == {NoBody} \cup { [ok |-> TRUE, XHR |-> x] : x \in XHRLists }

NoResp == [status |-> 0, body |-> NoBody]

InitMain ==
    /\ nWorkers = numWorkers
    /\ page = <<>>
    /\ pc = "zen"
    /\ InitPool
    /\ trace = NoTrace
    /\ call = NoCall
    /\ get = NoCall
    /\ colly = NoCall
    /\ \E f \in {"absent", "stale"} :
         zen = [pc |-> "main", file0 |-> f,
                file |-> [state |-> f, body |-> NoBody],
                resp |-> NoResp, steps |-> <<>>, csvStarted |-> FALSE,
                csvWritten |-> FALSE, warned |-> FALSE, exit |-> "none"]

zenOther ==
    <<nWorkers, page, pc, scrollI, productLinks, ctxs, poolVars, writer,
      call, colly>>

\* log.Fatalf of main: the process exits with status 1.
Fatal(z) == [z EXCEPT !.pc = "fatal", !.exit = "1"]

\* main calls ScrapeAndSaveToJSON.
ZenFetchCall ==
    /\ zen.pc = "main"
    /\ zen' = [zen EXCEPT !.pc = "request", !.steps = Append(@, "fetch")]
    /\ UNCHANGED <<get, zenOther>>

\* http.NewRequest returned an error.
ZenNewRequestFail ==
    /\ zen.pc = "request"
    /\ zen' = Fatal(zen)
    /\ UNCHANGED <<get, zenOther>>

ZenNewRequest ==
    /\ zen.pc = "request"
    /\ zen' = [zen EXCEPT !.pc = "do"]
    /\ UNCHANGED <<get, zenOther>>

\* client.Do returned an error.
ZenDoFail ==
    /\ zen.pc = "do"
    /\ zen' = Fatal(zen)
    /\ UNCHANGED <<get, zenOther>>

\* client.Do returned a response.
ZenDo ==
    /\ zen.pc = "do"
    /\ \E st \in Statuses, b \in ZenBodies :
         /\ st # StatusOK => b = NoBody
         /\ zen' = [zen EXCEPT !.pc = "status",
                               !.resp = [status |-> st, body |-> b]]
    /\ UNCHANGED <<get, zenOther>>

\* A response with a non-OK status that is read and saved like any other.
ZenNonOKSaved ==
    /\ zen.pc = "status"
    /\ zen.resp.status # StatusOK
    /\ zen' = [zen EXCEPT !.pc = "create"]
    /\ UNCHANGED <<get, zenOther>>

\* if resp.StatusCode != http.StatusOK { return error }
ZenNonOK ==
    /\ zen.pc = "status"
    /\ zen.resp.status # StatusOK
    /\ zen' = Fatal(zen)
    /\ UNCHANGED <<get, zenOther>>

\* io.ReadAll(resp.Body)
ZenReadAll ==
    /\ zen.pc = "status"
    /\ zen.resp.status = StatusOK
    /\ zen' = [zen EXCEPT !.pc = "create"]
    /\ UNCHANGED <<get, zenOther>>

ZenReadAllFail ==
    /\ zen.pc = "status"
    /\ zen.resp.status = StatusOK
    /\ zen' = Fatal(zen)
    /\ UNCHANGED <<get, zenOther>>

\* os.Create(outputFileName): the file is created, or truncated.
ZenCreate ==
    /\ zen.pc = "create"
    /\ zen' = [zen EXCEPT !.pc = "write",
                          !.file = [state |-> "empty", body |-> NoBody]]
    /\ UNCHANGED <<get, zenOther>>

ZenCreateFail ==
    /\ zen.pc = "create"
    /\ zen' = Fatal(zen)
    /\ UNCHANGED <<get, zenOther>>

\* file.Write(body); ScrapeAndSaveToJSON returns nil.
ZenWrite ==
    /\ zen.pc = "write"
    /\ zen' = [zen EXCEPT !.pc = "process",
                          !.file = [state |-> "written",
                                    body |-> zen.resp.body]]
    /\ UNCHANGED <<get, zenOther>>

ZenWriteFail ==
    /\ zen.pc = "write"
    /\ \E st \in {"empty", "partial"} :
         zen' = [Fatal(zen) EXCEPT !.file.state = st]
    /\ UNCHANGED <<get, zenOther>>

\* main calls ProcessJSONAndWriteToCSV, which calls getProductDataFromFile
\* on the file.
ZenProcessCall ==
    /\ zen.pc = "process"
    /\ zen' = [zen EXCEPT !.pc = "processing",
                          !.steps = Append(@, "process"),
                          !.csvStarted = TRUE]
    /\ get' = [state |-> "entry", ok |-> zen.file.body.ok,
               XHR |-> zen.file.body.XHR, i |-> 0, unmarshalled |-> {},
               allProducts |-> <<>>, breadcrumbs |-> <<>>, err |-> "nil"]
    /\ UNCHANGED zenOther

\* getProductDataFromFile returned an error.
ZenProcessErr ==
    /\ zen.pc = "processing"
    /\ get.state = "returned"
    /\ get.err # "nil"
    /\ zen' = Fatal(zen)
    /\ UNCHANGED <<get, zenOther>>

\* os.MkdirAll, os.Create or the write of the header failed.
ZenCSVFail ==
    /\ zen.pc = "processing"
    /\ get.state = "returned"
    /\ get.err = "nil"
    /\ Len(get.allProducts) # 0
    /\ zen' = Fatal(zen)
    /\ UNCHANGED <<get, zenOther>>

\* ProcessJSONAndWriteToCSV returns nil: without a CSV file when there are
\* no products, after the rows otherwise.
ZenProcessOK ==
    /\ zen.pc = "processing"
    /\ get.state = "returned"
    /\ get.err = "nil"
    /\ zen' = [zen EXCEPT !.pc = "remove",
                          !.steps = Append(@, "delete"),
                          !.csvWritten = Len(get.allProducts) # 0]
    /\ UNCHANGED <<get, zenOther>>

\* os.Remove succeeded.
ZenRemove ==
    /\ zen.pc = "remove"
    /\ zen' = [zen EXCEPT !.pc = "end", !.exit = "0",
                          !.file = [state |-> "absent", body |-> NoBody]]
    /\ UNCHANGED <<get, zenOther>>

\* os.Remove failed: the warning of line 28, and main goes on.
ZenRemoveFail ==
    /\ zen.pc = "remove"
    /\ zen' = [zen EXCEPT !.pc = "end", !.exit = "0", !.warned = TRUE]
    /\ UNCHANGED <<get, zenOther>>

NextMain ==
    \/ ZenFetchCall
    \/ ZenNewRequestFail
    \/ ZenNewRequest
    \/ ZenDoFail
    \/ ZenDo
    \/ ZenNonOK
    \/ ZenReadAll
    \/ ZenReadAllFail
    \/ ZenCreate
    \/ ZenCreateFail
    \/ ZenWrite
    \/ ZenWriteFail
    \/ ZenProcessCall
    \/ NextFile
    \/ ZenProcessErr
    \/ ZenCSVFail
    \/ ZenProcessOK
    \/ ZenRemove
    \/ ZenRemoveFail

MainSpec == InitMain /\ [][NextMain]_vars

(***************************************************************************)
(* Properties.                                                             *)
(***************************************************************************)
Min(a, b) == IF a < b THEN a ELSE b
Range(f) == { f[i] : i \in DOMAIN f }
SeqToBag(q) ==
    [ x \in Range(q) |-> Cardinality({ i \in DOMAIN q : q[i] = x }) ]
Count(x, B) == IF x \in DOMAIN B THEN B[x] ELSE 0
Size(B) == BagCardinality(B)

\* wg.Wait() has returned: the pool phase of Start is over.
\* The aggregation loop has ended: writeCSV is called, runs, or is over.
Aggregated == pc \in {"write", "header", "rows", "end", "fatal_csv"}

PoolFinished == pc \in {"close_results", "aggregate"} \/ Aggregated

\* C1, as the claim states it: when the pool phase has finished, exactly N =
\* len(productLinks) jobs were processed, each discovered URL once, with N
\* minus the failed jobs records and no record twice.
C1_EveryLinkProcessed ==
    PoolFinished =>
        /\ Size(scraped) = Len(productLinks)
        /\ \A i \in 1..Len(productLinks) : Count(productLinks[i], scraped) = 1
        /\ Size(sent) = Len(productLinks) - Size(logs)
        /\ \A r \in DOMAIN sent : sent[r] = 1

\* C1, amended: when the pool phase has finished, exactly
\* min(N, productTarget) jobs were processed, namely the first
\* min(N, productTarget) discovered URLs once each and no other URL; the
\* records are that number minus the failed jobs, and no record is there
\* twice.
C1_PoolProcessesCappedJobs ==
    PoolFinished =>
        LET n == Min(Len(productLinks), productTarget)
        IN  /\ Size(scraped) = n
            /\ \A i \in 1..Len(productLinks) :
                 Count(productLinks[i], scraped) = IF i <= n THEN 1 ELSE 0
            /\ Size(sent) = n - Size(logs)
            /\ Size(sent) <= n
            /\ \A r \in DOMAIN sent : sent[r] = 1

\* A pool of numWorkers workers has finished a list longer than the cap, one
\* job failed and one gave a record.
C1_Witness ==
    /\ PoolFinished
    /\ nWorkers = numWorkers
    /\ Len(productLinks) > productTarget
    /\ Size(logs) = 1
    /\ Size(sent) = productTarget - 1

\* C2: the aggregation loop neither drops nor duplicates nor changes a
\* record: while it runs, the records collected so far together with those
\* still in the channel are the records the workers sent, and when it has
\* ended the collection handed to writeCSV is, as a multiset, exactly the
\* records sent.
C2_AggregationLossless ==
    /\ pc = "aggregate" =>
         SeqToBag(finalProducts) (+) SeqToBag(results.buf) = sent
    /\ Aggregated => SeqToBag(finalProducts) = sent

\* The loop has ended with two records collected.
C2_Witness ==
    /\ pc = "write"
    /\ Len(finalProducts) = 2
    /\ Size(sent) = 2

\* C3: results is closed only after every worker has finished: once it is
\* closed the wait group is at zero and every worker of the pool has run its
\* wg.Done, so none is sending or about to send.
C3_CloseAfterWorkers ==
    results.closed =>
        /\ wg = 0
        /\ \A w \in 1..nWorkers : wpc[w] = "exited"

\* results is closed after a pool of numWorkers workers sent two records.
C3_Witness ==
    /\ results.closed
    /\ nWorkers = numWorkers
    /\ Size(sent) = 2

\* The steps of worker w.
WorkerStep(w) ==
    \/ NewContext(w)
    \/ Receive(w)
    \/ ScrapeOK(w)
    \/ ScrapeFail(w)
    \/ Send(w)
    \/ RangeEnd(w)
    \/ Done(w)

\* A step in which a worker's job fails: the failure line is logged.
JobFails == logs' # logs

\* C4: a job whose scrape returns an error gives no record, is not tried
\* again by any worker, and stops neither its worker nor the pool: the step
\* that fails a job sends nothing, puts nothing back on the queue, leaves
\* Start and the other workers where they are and leaves the worker at the
\* head of its loop, ready for its next job; no URL is ever scraped twice and
\* no URL with a failure line has a record; and when the pool has finished
\* every job that was enqueued has been processed.
C4_FailedJobIsSkipped ==
    /\ [][JobFails =>
            /\ sent' = sent
            /\ results' = results
            /\ jobs' = jobs
            /\ pc' = pc
            /\ \E w \in Workers :
                 /\ wpc[w] = "run"
                 /\ wpc'[w] = "recv"
                 /\ \A v \in Workers \ {w} : wpc'[v] = wpc[v]]_vars
    /\ [](\A u \in DOMAIN scraped : scraped[u] = 1)
    /\ [](\A l \in DOMAIN logs : \A r \in DOMAIN sent : r.URL # l.url)
    /\ [](PoolFinished => Size(scraped) = enq /\ Size(sent) + Size(logs) = enq)

\* The only worker of the pool failed the first job and then sent the record
\* of the second.
C4_Witness ==
    /\ nWorkers = 1
    /\ Len(productLinks) >= 2
    /\ \E l \in DOMAIN logs : l.url = productLinks[1]
    /\ \E r \in DOMAIN sent : r.URL = productLinks[2]

\* Worker v has been started, has not finished, and can take no step.
Stuck(v) ==
    /\ wpc[v] \in {"start", "recv", "run", "send", "done"}
    /\ ~ENABLED WorkerStep(v)

\* C5: a job that runs into its deadline gives no record, and while a job is
\* in flight on one worker no other worker is held up by it: another worker
\* can take no step only when it waits for a job on the empty, still open
\* queue, that is for the producer.
C5_WaitingJobBlocksNoOne ==
    /\ \A l \in DOMAIN logs :
         l.err = "deadline exceeded" => \A r \in DOMAIN sent : r.URL # l.url
    /\ \A w \in Workers :
         wpc[w] = "run" =>
            \A v \in Workers \ {w} :
                Stuck(v) =>
                    /\ wpc[v] = "recv"
                    /\ Len(jobs.buf) = 0
                    /\ ~jobs.closed

\* The first job is still in flight on its worker while the record of the
\* second job, dequeued later by another worker, has already been sent, and a
\* third worker has left its loop.
C5_Witness ==
    /\ Len(productLinks) >= 2
    /\ \E w \in Workers :
         /\ wpc[w] = "run"
         /\ wurl[w] = productLinks[1]
         /\ \E v \in Workers \ {w} : wpc[v] \in {"done", "exited"}
    /\ \E r \in DOMAIN sent : r.URL = productLinks[2]

\* The steps of Start.
StartStep ==
    \/ Navigate
    \/ Scroll
    \/ Evaluate
    \/ DiscoverFail
    \/ NoLinks
    \/ MakeChans
    \/ Spawn
    \/ Enqueue
    \/ CloseJobs
    \/ Wait
    \/ CloseResults
    \/ Aggregate
    \/ AggregateEnd
    \/ CreateFile
    \/ CreateFail
    \/ WriteHeader
    \/ WriteHeaderFail
    \/ WriteRow
    \/ WriteRowFail
    \/ WriteEnd

\* The run of the pool from the lists without a duplicate (discovery hands
\* the pool no duplicate).
FairInit ==
    /\ Init
    /\ \A i, j \in 1..Len(page) : i # j => page[i] # page[j]

\* The Go scheduler lets every goroutine that can run do so, and a scrape in
\* flight ends at the latest by its deadline (ScrapeOK or ScrapeFail): Start
\* and every worker are weakly fair.  No step of the program can be taken
\* twice from the same state, so a run stops only in a state it stays in, and
\* the fairness of the goroutines then says as much as the fairness of Next:
\* no step is possible there.
FairSpec == FairInit /\ [][Next]_vars /\ WF_vars(Next)

\* Start has ended: after writeCSV, or in a log.Fatalf of Start or of
\* writeCSV.
Ended == pc \in {"end", "fatal", "fatal_csv"}

\* C6: with fair scheduling and scrapes that end, a run whose discovery gave
\* at least one link always gets through the pool: every worker leaves its
\* loop and exits, wg.Wait returns, results is closed, the aggregation loop
\* ends and writeCSV is reached; and no state short of the end of Start is a
\* deadlock.
C6_RunCompletes ==
    /\ [](Ended \/ ENABLED Next)
    /\ (pc = "spawn") ~>
         (/\ pc = "write"
          /\ \A w \in 1..nWorkers : wpc[w] = "exited"
          /\ wg = 0
          /\ jobs.closed /\ results.closed
          /\ Len(results.buf) = 0)

\* writeCSV is reached by a pool of numWorkers workers with a failed job.
C6_Witness ==
    /\ pc = "write"
    /\ nWorkers = numWorkers
    /\ Size(logs) = 1
    /\ Len(finalProducts) = 1

\* The index of the first occurrence of u in ls.
FirstIndex(ls, u) ==
    CHOOSE i \in 1..Len(ls) :
        /\ ls[i] = u
        /\ \A j \in 1..(i - 1) : ls[j] # u

\* C7: for every list of anchors with K distinct URLs,
\* discoverProductLinks returns exactly those K URLs, each once, in the order
\* of their first occurrence in the list.
C7_FirstSeenOrder ==
    pc \in {"check", "spawn"} =>
        /\ Len(productLinks) = Cardinality(Range(page))
        /\ Range(productLinks) = Range(page)
        /\ \A i, j \in 1..Len(productLinks) :
             i < j => FirstIndex(page, productLinks[i])
                        < FirstIndex(page, productLinks[j])

\* Discovery returned two URLs for a list of three anchors whose first and
\* last are the same, the first-seen order not being the order U1, U2, U3.
C7_Witness ==
    /\ pc = "check"
    /\ Len(page) = 3
    /\ page[1] = page[3]
    /\ page[1] # page[2]
    /\ productLinks = <<U3, U1>>

\* The last non-empty segment of a path that has one.
HasSegment(segs) == \E i \in 1..Len(segs) : segs[i] # <<>>
LastSegment(segs) ==
    segs[CHOOSE i \in 1..Len(segs) :
            /\ segs[i] # <<>>
            /\ \A j \in (i + 1)..Len(segs) : segs[j] = <<>>]

\* The URL with its final slash removed, or with one added.
ToggleSlash(url) ==
    IF Len(url) > 0 /\ url[Len(url)] = Slash
    THEN SubSeq(url, 1, Len(url) - 1)
    ELSE Append(url, Slash)

\* C8: for any valid URL whose path has a non-empty segment, the ProductID
\* that scrapeProductPage computes is the last non-empty path segment, and it
\* is the same with and without a final slash.
C8_LastPathSegment ==
    (call.state = "running" /\ HasSegment(call.segs)) =>
        /\ call.p.ProductID = LastSegment(call.segs)
        /\ ProductIDOf(ToggleSlash(call.url)) = call.p.ProductID

\* C9, as the claim states it: whatever the outcome of the browser actions,
\* the record scrapeProductPage hands back carries the URL of the job and the
\* identifier derived from it.
C9_ReturnedRecordHasIdentifier ==
    call.state = "returned" =>
        /\ call.ret.URL = call.url
        /\ call.ret.ProductID = ProductIDOf(call.url)

\* C9, amended: the identifier is set from the URL before the first browser
\* action and no action changes it: from then on the record p of the call
\* carries the URL of the job and the identifier derived from it, whatever the
\* actions do; the record handed back carries them when every action
\* succeeded, and is the empty Product, without URL and identifier, when one
\* failed.
C9_IdentifierSetBeforeActions ==
    /\ call.state \in {"running", "returned"} =>
         /\ call.p.URL = call.url
         /\ call.p.ProductID = ProductIDOf(call.url)
    /\ (call.state = "returned" /\ call.err = "nil") =>
         /\ call.ret.URL = call.url
         /\ call.ret.ProductID = ProductIDOf(call.url)
    /\ (call.state = "returned" /\ call.err # "nil") =>
         call.ret = EmptyProduct

\* A call for a URL with two path segments has returned its record.
C9_Witness ==
    /\ call.state = "returned"
    /\ call.err = "nil"
    /\ call.url = Origin \o <<"/", "x", "/", "1", "2">>
    /\ call.ret.ProductID = <<"1", "2">>
    /\ call.ret.Name = "Name"

\* C10: every worker makes one context when it starts and runs all its jobs
\* on it: a worker past its first step holds a context that was made, it never
\* holds another one later, every context a worker ran a job on is the one it
\* holds, no context is used by two workers, and the context of the discovery
\* is used by no worker.
C10_OneSessionPerWorker ==
    /\ [](\A w \in Workers :
            /\ wpc[w] \in {"recv", "run", "send", "done", "exited"} =>
                 /\ taskCtx[w] # 0
                 /\ ctxs[taskCtx[w]].state # "none"
            /\ \A c \in DOMAIN ctxs : w \in ctxs[c].users => c = taskCtx[w])
    /\ [](\A c \in DOMAIN ctxs : Cardinality(ctxs[c].users \cap Workers) <= 1)
    /\ [](ctxs[0].users \subseteq {0})
    /\ [](\A c \in DOMAIN ctxs : c # 0 => 0 \notin ctxs[c].users)
    /\ [][\A w \in Workers : taskCtx[w] # 0 => taskCtx'[w] = taskCtx[w]]_vars

\* One worker has run both jobs on its context, after the discovery ran on
\* the context of Start.
C10_Witness ==
    /\ nWorkers = numWorkers
    /\ Size(scraped) = 2
    /\ \E w \in Workers :
         /\ ctxs[taskCtx[w]].users = {w}
         /\ \A v \in Workers \ {w} : ctxs[v].users = {}
    /\ ctxs[0].users = {0}
    /\ pc = "end"

\* The context of worker w has been released: its cancel() has run.
Released(w) == taskCtx[w] # 0 /\ ctxs[taskCtx[w]].state = "cancelled"

\* C11: the context of a worker is released once, at the end of its range
\* loop and before its wg.Done: a context becomes cancelled only in the step
\* in which its worker, with no job in hand, finds jobs closed and empty and
\* leaves the loop; a cancelled context stays cancelled and its worker never
\* returns to the loop; a worker that has left the loop has released its
\* context and one that has not has not; the step that lowers the wait group
\* is taken by a worker whose context is released; and when results is closed
\* the context of every worker of the pool is released.
C11_ReleasedOnceBeforeDone ==
    /\ [][\A c \in Workers :
            (ctxs'[c].state # ctxs[c].state /\ ctxs'[c].state = "cancelled") =>
                \E w \in Workers :
                    /\ taskCtx[w] = c
                    /\ ctxs[c].state = "open"
                    /\ wpc[w] = "recv" /\ wpc'[w] = "done"
                    /\ Drained(jobs)
                    /\ wurl[w] = <<>> /\ wprod[w] = EmptyProduct]_vars
    /\ [][\A w \in Workers :
            /\ ctxs[w].state = "cancelled" => ctxs'[w].state = "cancelled"
            /\ wpc[w] \in {"done", "exited"} =>
                 wpc'[w] \in {"done", "exited"}]_vars
    /\ [](\A w \in Workers :
            /\ wpc[w] \in {"done", "exited"} => Released(w)
            /\ wpc[w] \in {"start", "recv", "run", "send"} => ~Released(w))
    /\ [][wg' < wg =>
            \E w \in Workers :
                /\ wpc[w] = "done" /\ wpc'[w] = "exited"
                /\ Released(w)]_vars
    /\ [](results.closed => \A w \in 1..nWorkers : Released(w))

\* results has been closed after the two workers of the pool each did one
\* job and released its context.
C11_Witness ==
    /\ results.closed
    /\ nWorkers = 2
    /\ Released(1) /\ Released(2)
    /\ ctxs[1].users = {1} /\ ctxs[2].users = {2}

\* The status log.Fatalf ends the process with (os.Exit(1)); 0 when Start
\* returns.
ExitStatus == IF pc \in {"fatal", "fatal_csv"} THEN 1 ELSE 0

\* No worker has been started, no channel made, no job enqueued and no file
\* created.
NothingStarted ==
    /\ spawned = 0
    /\ wg = 0
    /\ \A w \in Workers : wpc[w] = "unborn" /\ taskCtx[w] = 0
    /\ jobs = NoChan /\ results = NoChan
    /\ enq = 0
    /\ writer.file = "none"
    /\ csv = <<>>

\* C12: a discovery that fails, or that returns no link, ends Start in
\* log.Fatalf with a nonzero status, and nothing was started by then: while
\* the discovery runs and in the fatal end no worker is started, no job
\* enqueued and no file created; the step that follows a discovery without
\* links is the fatal one; nothing follows the fatal end; and a worker is
\* started only when discovery has returned at least one link.
C12_FatalBeforeAnyWorker ==
    /\ [](pc \in {"navigate", "scroll", "evaluate", "check", "fatal"} =>
            NothingStarted)
    /\ [](pc = "fatal" => ExitStatus # 0 /\ Len(productLinks) = 0)
    /\ [][(pc = "check" /\ Len(productLinks) = 0) => pc' = "fatal"]_vars
    /\ [][pc # "fatal"]_vars
    /\ [](spawned > 0 =>
            /\ Len(productLinks) > 0
            /\ pc \notin {"navigate", "scroll", "evaluate", "check", "fatal"})

\* The discovery scrolled the page to its end, found no anchor on it, and
\* Start ended in log.Fatalf.
C12_Witness ==
    /\ pc = "fatal"
    /\ page = <<>>
    /\ scrollI = scrolls
    /\ ctxs[0].users = {0}
    /\ NothingStarted

\* The run is over, every job gave its record and every write succeeded.
CleanRun ==
    /\ pc = "end"
    /\ logs = EmptyBag
    /\ writer.warned = <<>>

\* The records of the collection are the fully extracted records of the
\* first n discovered URLs, one each.
RecordsOfFirst(n) ==
    /\ Len(finalProducts) = n
    /\ SeqToBag(finalProducts) =
         SeqToBag([ i \in 1..n |-> Extracted(productLinks[i]) ])

\* The file holds the header row and then one row per record.
HeaderAndRows ==
    /\ Len(csv) = 1 + Len(finalProducts)
    /\ csv[1] = Header
    /\ \A i \in 1..Len(finalProducts) : csv[i + 1] = Row(finalProducts[i])

C14_FailuresCountedAndLogged ==
    /\ [](PoolFinished =>
            /\ Size(scraped) = enq
            /\ Size(logs) = enq - Size(sent)
            /\ Size(logs) <= enq)
    /\ [](Aggregated => Len(finalProducts) = enq - Size(logs))
    /\ [](\A l \in DOMAIN logs :
            /\ logs[l] = 1
            /\ l.url \in DOMAIN scraped
            /\ \A r \in DOMAIN sent : r.URL # l.url
            /\ \A m \in DOMAIN logs : m.url = l.url => m = l)
    /\ (Size(logs) > 0) ~> Ended

\* A run of 2 jobs of which 1 failed has ended with 1 record, 1 failure line
\* and the header row and 1 data row in the file.
C14_Witness ==
    /\ pc = "end"
    /\ enq = 2
    /\ Size(logs) = 1
    /\ Len(finalProducts) = 1
    /\ \E l \in DOMAIN logs : l.url = productLinks[1]
    /\ finalProducts[1].URL = productLinks[2]
    /\ Len(csv) = 2

\* The places, in the collection, of the records whose row failed.
WarnedAt == { writer.warned[k].at : k \in 1..Len(writer.warned) }

NotWarned(i) == i \notin WarnedAt

\* The places of the records whose row was written, in ascending order.
WrittenAt == SelectSeq([ i \in 1..writer.i |-> i ], NotWarned)

\* C15: writeCSV writes the header row first, then the rows of the records
\* in collection order, each with its values under the columns of the
\* header: nothing is in the file before the header, and from the header on
\* the file is the header followed by the rows of the records tried so far
\* whose write did not fail, in the order of the collection, value j of a row
\* being the field of the record that column j of the header names.  A row
\* whose write fails is logged with the name of its record and skipped, and
\* the loop goes on with the next record: at the end every record was tried
\* and is either in the file or in a warning.  A failure to create the file
\* or to write the header ends the run with no row written.
C15_HeaderThenRowsInOrder ==
    /\ [](pc \in {"write", "header"} => csv = <<>> /\ writer.i = 0)
    /\ [](pc \in {"rows", "end"} =>
            /\ writer.file # "none"
            /\ Len(csv) = 1 + Len(WrittenAt)
            /\ csv[1] = Header
            /\ \A k \in 1..Len(WrittenAt) :
                 \A j \in 1..Len(Header) :
                     csv[k + 1][j] = finalProducts[WrittenAt[k]][csv[1][j]])
    /\ [](\A k \in 1..Len(writer.warned) :
            /\ writer.warned[k].name = finalProducts[writer.warned[k].at].Name
            /\ \A m \in 1..Len(writer.warned) :
                 writer.warned[m].at = writer.warned[k].at => m = k)
    /\ [][writer'.warned # writer.warned =>
            /\ pc = "rows" /\ pc' = "rows"
            /\ csv' = csv
            /\ writer'.i = writer.i + 1
            /\ Len(writer'.warned) = Len(writer.warned) + 1]_vars
    /\ [](pc = "end" =>
            /\ writer.i = Len(finalProducts)
            /\ Len(csv) - 1 + Len(writer.warned) = Len(finalProducts))
    /\ [](pc = "fatal_csv" =>
            /\ ExitStatus # 0
            /\ Len(csv) = 0
            /\ writer.i = 0)
    /\ [][pc # "fatal_csv"]_vars

\* The write of the row of the first of two records failed, and the row of
\* the second was written after it.
C15_Witness ==
    /\ pc = "end"
    /\ Len(finalProducts) = 2
    /\ WarnedAt = {1}
    /\ csv = <<Header, Row(finalProducts[2])>>
    /\ csv[2][1] = finalProducts[2].URL

\* The places of the exchanges of the data endpoint, and of those among them
\* whose body is JSON.
AtEndpoint == { i \in 1..Len(get.XHR) : get.XHR[i].URL \in ApiURLs }
Qualifying == { i \in AtEndpoint : get.XHR[i].Body.json }
FirstQualifying == CHOOSE i \in Qualifying : \A j \in Qualifying : i <= j

\* C16: for every list of exchanges of a readable file,
\* getProductDataFromFile returns, without error, the recommendations and
\* the breadcrumbs of the first exchange of the list whose URL contains
\* "recs/api/products" and whose body unmarshals, wherever it is in the list,
\* and returns an error when there is none; it unmarshals the body of no
\* exchange with another URL, and of the exchanges of the endpoint exactly
\* those up to the one it returns: one whose body does not unmarshal is
\* passed over.
C16_FirstMatchingExchange ==
    /\ get.state \in {"loop", "returned"} => get.unmarshalled \subseteq AtEndpoint
    /\ (get.state = "returned" /\ get.ok /\ Qualifying # {}) =>
         /\ get.err = "nil"
         /\ get.allProducts = get.XHR[FirstQualifying].Body.recommendations
         /\ get.breadcrumbs = get.XHR[FirstQualifying].Body.json_breadcrumbs
         /\ get.unmarshalled = { i \in AtEndpoint : i <= FirstQualifying }
    /\ (get.state = "returned" /\ get.ok /\ Qualifying = {}) =>
         /\ get.err # "nil"
         /\ get.allProducts = <<>> /\ get.breadcrumbs = <<>>
         /\ get.unmarshalled = AtEndpoint
    /\ (get.state = "returned" /\ ~get.ok) =>
         get.err # "nil" /\ get.unmarshalled = {}

\* The data was found in the third exchange: the first has another URL and
\* the body of the second, of the endpoint, does not unmarshal.
C16_Witness ==
    /\ get.state = "returned"
    /\ Len(get.XHR) = 3
    /\ get.XHR[1].URL \in OtherURLs /\ get.XHR[1].Body.json
    /\ get.XHR[2].URL \in ApiURLs /\ ~get.XHR[2].Body.json
    /\ get.XHR[3].URL \in ApiURLs
    /\ get.unmarshalled = {2, 3}
    /\ get.err = "nil"
    /\ get.allProducts = <<"b", "c">>

\* What action k of the sequence has written so far: the text of its field
\* or of its local variable, "" when it writes nothing or has not run.
WrittenByIn(c, k) ==
    IF Actions[k].into \in TextFieldSet THEN c.p[Actions[k].into]
    ELSE IF Actions[k].into \in DOMAIN RawField
         THEN c.raw[Actions[k].into]
         ELSE ""

WrittenBy(k) == WrittenByIn(call, k)

\* C17: chromedp.Run stops at the first action that fails: any action of
\* the sequence can be the one that fails; the call then returns an error
\* and the empty record, the actions before the failing one have run, and
\* none after it has (what they write is still unwritten); nothing is done
\* after the return; and a record that is not empty is returned only
\* without error, after all the actions, the steps of the size chart
\* included, and is then the fully extracted record.
C17_ShortCircuitOnFirstFailure ==
    /\ []((call.state = "running" /\ call.step < Len(Actions)) =>
            ENABLED ActionFail)
    /\ []((call.state = "returned" /\ call.err # "nil") =>
            /\ call.ret = EmptyProduct
            /\ call.step < Len(Actions)
            /\ \A k \in 1..call.step :
                 Actions[k].into # "" => WrittenBy(k) # ""
            /\ \A k \in (call.step + 1)..Len(Actions) : WrittenBy(k) = "")
    /\ []((call.state = "returned" /\ call.ret # EmptyProduct) =>
            /\ call.err = "nil"
            /\ call.step = Len(Actions)
            /\ call.ret = Extracted(call.url)
            /\ call.ret.SizeChartJSON # "")
    /\ []((call.state = "returned" /\ call.err = "nil") =>
            call.ret # EmptyProduct)
    /\ [][call.state # "returned"]_vars

\* The wait for the size-chart table, the last but one step, failed after
\* the click and the 17 steps before it succeeded: the fields read so far
\* are lost with the empty record that is returned.
C17_Witness ==
    /\ call.state = "returned"
    /\ call.err = "action failed"
    /\ call.step = Len(Actions) - 2
    /\ Actions[call.step + 1].kind = "WaitVisible"
    /\ call.p.Name # "" /\ call.raw.reviewsRaw # ""
    /\ call.ret = EmptyProduct

\* The place in the sequence of the action of a kind, and of the action
\* that writes a field or a local variable.
PlaceOfKind(kind) == CHOOSE k \in 1..Len(Actions) : Actions[k].kind = kind
PlaceOfInto(into) == CHOOSE k \in 1..Len(Actions) : Actions[k].into = into

\* C18: the actions of one call run one after the other in the order of the
\* list: a step of chromedp.Run runs the next action of the list and writes
\* nothing but what that action writes; whatever has been written was
\* written by an action that comes after the navigation and the page-ready
\* wait, in this order, both of which have succeeded by then; and the
\* size-chart script has written only after the click and then the wait for
\* the table have succeeded, in this order.
C18_StepsInListedOrder ==
    /\ [][call'.step # call.step =>
            /\ call'.step = call.step + 1
            /\ \A k \in 1..Len(Actions) :
                 k # call.step + 1 =>
                    WrittenByIn(call', k) = WrittenByIn(call, k)]_vars
    /\ [](call.state \in {"running", "returned"} =>
            \A k \in 1..Len(Actions) :
                WrittenBy(k) # "" =>
                    /\ k <= call.step
                    /\ PlaceOfKind("Navigate") < PlaceOfKind("WaitReady")
                    /\ PlaceOfKind("WaitReady") < k)
    /\ [](call.state \in {"running", "returned"} =>
            (call.raw.sizeChartRaw # "" =>
                /\ PlaceOfInto("sizeChartRaw") <= call.step
                /\ PlaceOfKind("Click") < PlaceOfKind("WaitVisible")
                /\ PlaceOfKind("WaitVisible") < PlaceOfInto("sizeChartRaw")))

\* The click and the wait for the table have succeeded, every field before
\* them is read, and the size-chart script has not run yet.
C18_Witness ==
    /\ call.state = "running"
    /\ call.step = PlaceOfKind("WaitVisible")
    /\ call.step = Len(Actions) - 1
    /\ call.raw.reviewsRaw # ""
    /\ call.raw.sizeChartRaw = ""

\* A step in which the deadline of a job passes: the failure line of a
\* deadline is logged.
DeadlinePasses ==
    \E l \in DOMAIN logs' :
        /\ l.err = "deadline exceeded"
        /\ Count(l, logs') > Count(l, logs)

\* C19: every job has a deadline context of its own, made when the job
\* starts and derived from the context of its worker: a worker has one
\* exactly while a job is in flight on it, it is then live and its parent is
\* the open context of that worker, and the step that starts a job makes it
\* anew.  The step in which the deadline of a job passes ends that job and
\* its deadline context only: it cancels neither the context of the worker
\* nor that of Start, and leaves every other worker, its job and its
\* deadline context as they are; the context of Start is never cancelled
\* while the pool runs.
C19_DeadlinePerJob ==
    /\ [](\A w \in Workers :
            /\ wpc[w] = "run" <=> scrapeCtx[w] # NoCtx
            /\ wpc[w] = "run" =>
                 /\ scrapeCtx[w].state = "live"
                 /\ scrapeCtx[w].parent = taskCtx[w]
                 /\ taskCtx[w] # 0
                 /\ ctxs[taskCtx[w]].state = "open")
    /\ [][\A w \in Workers :
            (wpc[w] # "run" /\ wpc'[w] = "run") =>
                /\ scrapeCtx[w] = NoCtx
                /\ scrapeCtx'[w].state = "live"]_vars
    /\ [][DeadlinePasses =>
            \E w \in Workers :
                /\ wpc[w] = "run" /\ wpc'[w] = "recv"
                /\ scrapeCtx'[w] = NoCtx
                /\ ctxs' = ctxs /\ taskCtx' = taskCtx
                /\ ctxs'[taskCtx[w]].state = "open"
                /\ \A v \in Workers \ {w} :
                     /\ wpc'[v] = wpc[v]
                     /\ wurl'[v] = wurl[v]
                     /\ wprod'[v] = wprod[v]
                     /\ scrapeCtx'[v] = scrapeCtx[v]]_vars
    /\ [](ctxs[0].state = "open")

\* The deadline of the first job passed on the only worker of the pool, and
\* the second job is in flight on the same worker with a live deadline
\* context derived from the same, open, context.
C19_Witness ==
    /\ nWorkers = 1
    /\ Len(productLinks) >= 2
    /\ [url |-> productLinks[1], err |-> "deadline exceeded"] \in DOMAIN logs
    /\ wpc[1] = "run"
    /\ wurl[1] = productLinks[2]
    /\ scrapeCtx[1] = [state |-> "live", parent |-> taskCtx[1]]
    /\ ctxs[taskCtx[1]].state = "open"

\* The jobs enqueued so far.
Enqueued == SubSeq(productLinks, 1, enq)

\* C20: jobs is written by Start alone, closed once after the last send, and
\* each job is received once: a step that puts a job on the queue is a step
\* of the enqueue loop of Start on the open queue, appends the next
\* discovered link and moves no worker; the queue is closed in one step, of
\* Start, after the enqueue loop has ended, stays closed, and is not written
\* again; no URL is enqueued twice; the queue holds the latest of the
\* enqueued jobs in their order, unchanged, and the enqueued jobs are, one
\* for one, those still in the queue and those the workers have received; a
\* step that takes a job from the queue hands its head to exactly one
\* worker; and when the pool has finished every enqueued job has been
\* received.
C20_JobQueueWriteOnceReadOnce ==
    /\ [][jobs'.buf # jobs.buf /\ Len(jobs'.buf) >= Len(jobs.buf) =>
            /\ pc = "enqueue"
            /\ ~jobs.closed /\ ~jobs'.closed
            /\ jobs'.buf = Append(jobs.buf, productLinks[enq + 1])
            /\ enq' = enq + 1
            /\ wpc' = wpc]_vars
    /\ [][jobs'.closed # jobs.closed =>
            /\ ~jobs.closed
            /\ pc = "close_jobs" /\ pc' = "wait"
            /\ EnqueueDone(enq)
            /\ jobs'.buf = jobs.buf
            /\ wpc' = wpc]_vars
    /\ [][jobs.closed => (enq' = enq /\ pc' # "close_jobs")]_vars
    /\ [](\A i, j \in 1..enq : i # j => productLinks[i] # productLinks[j])
    /\ [](/\ Len(jobs.buf) <= enq
          /\ jobs.buf = SubSeq(productLinks, enq - Len(jobs.buf) + 1, enq)
          /\ SeqToBag(Enqueued) = SeqToBag(jobs.buf) (+) scraped)
    /\ [][Len(jobs'.buf) < Len(jobs.buf) =>
            /\ jobs'.buf = Tail(jobs.buf)
            /\ pc' = pc
            /\ \E w \in Workers :
                 /\ wpc[w] = "recv" /\ wpc'[w] = "run"
                 /\ wurl'[w] = Head(jobs.buf)
                 /\ \A v \in Workers \ {w} :
                      wpc'[v] = wpc[v] /\ wurl'[v] = wurl[v]]_vars
    /\ [](PoolFinished =>
            /\ jobs.closed /\ Len(jobs.buf) = 0
            /\ \A i \in 1..enq : Count(productLinks[i], scraped) = 1)

\* Start is still in its enqueue loop, with the second job not yet sent,
\* while a worker has already received the first job and another waits on
\* the empty queue.
C20_Witness ==
    /\ pc = "enqueue"
    /\ enq = 1
    /\ Len(productLinks) >= 2
    /\ Len(jobs.buf) = 0 /\ ~jobs.closed
    /\ \E w \in Workers :
         /\ wpc[w] = "run" /\ wurl[w] = productLinks[1]
         /\ \E v \in Workers \ {w} : wpc[v] = "recv"

(***************************************************************************)
(* C21                                                                     *)
(***************************************************************************)
\* The elements of seq at the places in S, in the order of seq.
Restrict(seq, S) ==
    LET at == S \cap (1..Len(seq))
        nth(k) == CHOOSE i \in at : Cardinality({ j \in at : j < i }) = k - 1
    IN  [ k \in 1..Cardinality(at) |-> seq[nth(k)] ]

URLsOf(ps) == [ i \in 1..Len(ps) |-> ps[i].URL ]
JobsOf(es) == [ i \in 1..Len(es) |-> es[i].url ]

\* The jobs worker w has completed, in the order it completed them, and
\* those of them that gave a record.
CompletedBy(w) ==
    Restrict(trace.out, { i \in 1..Len(trace.out) : trace.out[i].w = w })
ProducedBy(w) ==
    Restrict(trace.out, { i \in 1..Len(trace.out) :
                            trace.out[i].w = w /\ trace.out[i].ok })

\* The records handed over so far, in the order of the results channel:
\* those the aggregation loop has appended, then those still in the buffer.
HandedOver == finalProducts \o results.buf

\* The URLs that have a failure line in the log.
FailedURLs == { l.url : l \in DOMAIN logs }

\* The enqueued URLs whose job did not fail, in discovery order.
SuccessfulInDiscoveryOrder ==
    Restrict(SubSeq(productLinks, 1, enq),
             { i \in 1..enq : productLinks[i] \notin FailedURLs })

\* C21: every worker is sequential: the jobs it has completed are a prefix
\* of the jobs it dequeued, in the same order, and it holds one more job
\* exactly while it is scraping or sending; the records of one worker stand
\* in the results in the order in which it dequeued their jobs; with a
\* single worker the aggregated records are the successful jobs in discovery
\* order.
C21_WorkerIsSequential ==
    /\ \A w \in Workers :
         LET deq  == trace.deq[w]
             done == CompletedBy(w)
             inHand == IF wpc[w] \in {"run", "send"} THEN 1 ELSE 0
         IN  /\ Len(deq) = Len(done) + inHand
             /\ JobsOf(done) = SubSeq(deq, 1, Len(done))
             /\ inHand = 1 => wurl[w] = deq[Len(deq)]
             /\ Restrict(URLsOf(HandedOver),
                         { i \in 1..Len(HandedOver) :
                             \E k \in 1..Len(trace.out) :
                               /\ trace.out[k].w = w
                               /\ trace.out[k].ok
                               /\ trace.out[k].url = HandedOver[i].URL })
                  = JobsOf(ProducedBy(w))
    /\ (nWorkers = 1 /\ Aggregated) =>
         URLsOf(finalProducts) = SuccessfulInDiscoveryOrder

\* One worker has dequeued two jobs and both records are aggregated.
C21_Witness ==
    /\ nWorkers = 1
    /\ pc = "end"
    /\ Len(trace.deq[1]) = 2
    /\ Len(finalProducts) = 2

(***************************************************************************)
(* C22                                                                     *)
(***************************************************************************)
\* The records of the enqueued jobs that did not fail.
SuccessfulRecords ==
    { Extracted(productLinks[i]) :
        i \in { j \in 1..enq : productLinks[j] \notin FailedURLs } }

\* C22: whatever the interleaving of the workers, the aggregated records
\* are, as a set and without repetition, the records of the enqueued jobs
\* that did not fail; their order is not fixed (C22_Witness is a final state
\* of a pool of two workers in which two records stand against discovery
\* order).
C22_SameSetAnyOrder ==
    Aggregated =>
        /\ Range(finalProducts) = SuccessfulRecords
        /\ Len(finalProducts) = Cardinality(SuccessfulRecords)

\* The run of a pool of at least two workers has ended with two records
\* whose order is the reverse of discovery order.
C22_Witness ==
    /\ nWorkers >= 2
    /\ pc = "end"
    /\ Len(productLinks) >= 2
    /\ URLsOf(finalProducts) = <<productLinks[2], productLinks[1]>>

(***************************************************************************)
(* C23                                                                     *)
(***************************************************************************)
\* The enqueue loop stands before the send of line 117.
ProducerAtSend == pc = "enqueue" /\ ~EnqueueDone(enq)

\* C23: no send of the pool can block: both channels are made with the
\* number of discovered links as capacity, no more jobs than that are
\* enqueued and no more records than jobs are sent, so the producer always
\* finds room in jobs and every worker that has a record finds room in
\* results, although nothing is received from results before the workers
\* have finished.
C23_NoSendBlocks ==
    /\ pc \notin {"navigate", "scroll", "evaluate", "check", "fatal"} =>
         /\ jobs.cap = Len(productLinks)
         /\ results.cap = Len(productLinks)
    /\ enq <= Len(productLinks)
    /\ Size(sent) <= enq
    /\ ProducerAtSend => CanSend(jobs)
    /\ \A w \in Workers : wpc[w] = "send" => CanSend(results)
    /\ ~PoolFinished => finalProducts = <<>>

\* Every enqueued job of a page of two links has given its record, the
\* results channel is full and nothing has been received from it.
C23_Witness ==
    /\ Len(productLinks) = 2
    /\ Len(results.buf) = results.cap
    /\ finalProducts = <<>>
    /\ pc = "wait"

(***************************************************************************)
(* C24                                                                     *)
(***************************************************************************)
\* The discovered links that stand after the first productTarget ones.
BeyondTarget ==
    { productLinks[i] : i \in (productTarget + 1)..Len(productLinks) }

\* The enqueue loop of lines 113-118 is over.
EnqueueLoopOver ==
    pc \in {"close_jobs", "wait", "close_results", "aggregate"} \/ Aggregated

\* C24: the jobs enqueued are the first min(N, productTarget) discovered
\* URLs, sent one by one in discovery order; a link after the first
\* productTarget is never enqueued, scraped, aggregated or written; and the
\* records, and the data rows, never exceed productTarget.
C24_FirstTargetLinksOnly ==
    /\ [][enq' # enq =>
            /\ enq' = enq + 1
            /\ enq' <= Min(Len(productLinks), productTarget)
            /\ jobs'.buf = Append(jobs.buf, productLinks[enq'])]_vars
    /\ [](EnqueueLoopOver => enq = Min(Len(productLinks), productTarget))
    /\ [](\A u \in BeyondTarget :
            /\ u \notin Range(jobs.buf)
            /\ Count(u, scraped) = 0
            /\ \A w \in Workers : wurl[w] # u
            /\ \A k \in 1..Len(results.buf) : results.buf[k].URL # u
            /\ \A k \in 1..Len(finalProducts) : finalProducts[k].URL # u
            /\ \A k \in 2..Len(csv) : csv[k][1] # u)
    /\ [](/\ Len(finalProducts) <= productTarget
          /\ Len(csv) <= 1 + productTarget)

\* The listing page gave more links than productTarget and the run has
\* ended with productTarget records written.
C24_Witness ==
    /\ Len(productLinks) > productTarget
    /\ pc = "end"
    /\ enq = productTarget
    /\ Len(finalProducts) = productTarget
    /\ Len(csv) = 1 + productTarget

(***************************************************************************)
(* C25                                                                     *)
(***************************************************************************)
InDiscovery == pc \in {"navigate", "scroll", "evaluate"}

\* The number of browser steps of discoverProductLinks that have succeeded:
\* the navigation, then the scrolls, then the extraction.
StepsDone ==
    CASE pc = "navigate" -> 0
      [] pc = "scroll"   -> 1 + scrollI
      [] pc = "evaluate" -> 1 + scrolls
      [] OTHER           -> 2 + scrolls

\* C25: discoverProductLinks attempts the navigation, each of the scrolls
\* and the extraction at most once and in that order, the one extraction
\* after the last scroll; a failure of a step (or the discovery deadline)
\* ends the call with no URL list, and no later step runs and no step is
\* tried again.
C25_NoRetryNoPartialResult ==
    /\ [][(InDiscovery /\ pc' # "fatal") => StepsDone' = StepsDone + 1]_vars
    /\ [](pc = "scroll" => scrollI < scrolls)
    /\ [](pc = "evaluate" => scrollI = scrolls)
    /\ [](InDiscovery => productLinks = <<>>)
    /\ [][productLinks' # productLinks =>
            /\ pc = "evaluate" /\ pc' = "check"
            /\ scrollI = scrolls]_vars
    /\ [][(InDiscovery /\ pc' = "fatal") =>
            /\ productLinks' = <<>>
            /\ scrollI' = scrollI]_vars
    /\ [][pc # "fatal"]_vars

\* The page shows anchors, the third scroll failed, and the call has ended
\* without a list.
C25_Witness ==
    /\ pc = "fatal"
    /\ scrollI = 2
    /\ Len(page) > 0
    /\ productLinks = <<>>

(***************************************************************************)
(* C26                                                                     *)
(***************************************************************************)
\* A worker goroutine is running.
Alive(w) == wpc[w] \notin {"unborn", "exited"}

\* The visits of the colly variant that stand in the append to products.
Appending == { v \in colly.pending : v.at = "append" }

\* C26: the collection of the records has one writer.  In the pool every
\* change of finalProducts is one append of the head of the closed results
\* channel by the aggregation loop of Start, made when no worker is alive;
\* a worker that has a record only sends it on results, and finalProducts
\* is empty while a worker is alive.  In the colly variant every append to
\* products is made in the goroutine of Start, one at a time.
C26_SingleWriter ==
    /\ [][finalProducts' # finalProducts =>
            /\ pc = "aggregate" /\ pc' = "aggregate"
            /\ results.closed
            /\ \A w \in Workers : ~Alive(w)
            /\ wpc' = wpc
            /\ finalProducts' = Append(finalProducts, Head(results.buf))
            /\ results'.buf = Tail(results.buf)]_vars
    /\ [][\A w \in Workers :
            (wpc[w] = "send" /\ wpc'[w] # "send") =>
                /\ results'.buf = Append(results.buf, wprod[w])
                /\ finalProducts' = finalProducts]_vars
    /\ []((\E w \in Workers : Alive(w)) => finalProducts = <<>>)
    /\ [](colly.state # "none" =>
            /\ Cardinality(Appending) <= 1
            /\ \A v \in colly.pending : v.ctx = 0
            /\ \A k \in 1..Len(colly.by) : colly.by[k] = 0)
    /\ [][(colly.state # "none" /\ colly'.products # colly.products) =>
            \E v \in Appending :
                /\ Appending = {v}
                /\ colly'.products = Append(colly.products, v.n)]_vars

\* The aggregation loop of a pool of numWorkers workers has appended the
\* first of two records while the second is still in the closed channel.
C26_Witness ==
    /\ pc = "aggregate"
    /\ nWorkers = numWorkers
    /\ Len(finalProducts) = 1
    /\ Len(results.buf) = 1

\* The colly variant has appended the records of two product pages.
C26_WitnessColly ==
    /\ colly.state = "end"
    /\ Len(colly.products) = 2

(***************************************************************************)
(* C27                                                                     *)
(***************************************************************************)
MainSteps == <<"fetch", "process", "delete">>

\* ScrapeAndSaveToJSON is running.
InFetch == zen.pc \in {"request", "do", "status", "create", "write"}

\* sample.json as main found it.
Untouched == zen.file = [state |-> zen.file0, body |-> NoBody]

\* C27: main calls its steps in the order fetch-and-save, process-to-CSV,
\* delete, each one after the one before it returned without error.  A
\* failure of the fetch ends the run with exit status 1 before the CSV
\* processing is called; after a request error or a non-OK status the
\* capture file is as main found it.  The file is removed only by the
\* delete step, after the fetch wrote it and the processing returned nil;
\* a failed removal is a warning, and the run ends with status 0.
C27_FetchFailureIsFatal ==
    /\ [](zen.steps = SubSeq(MainSteps, 1, Len(zen.steps)))
    /\ [][(InFetch /\ zen'.pc \notin {"process"} /\ ~InFetch') =>
            /\ zen'.pc = "fatal" /\ zen'.exit = "1"
            /\ ~zen'.csvStarted
            /\ get' = NoCall]_vars
    /\ [](Len(zen.steps) <= 1 => (~zen.csvStarted /\ get = NoCall))
    /\ []((zen.pc \in {"request", "do", "status"}
             \/ (zen.pc = "fatal" /\ zen.resp.status # StatusOK)) =>
            Untouched)
    /\ [](zen.csvStarted => zen.resp.status = StatusOK)
    /\ [](zen.file.state = "written" =>
            (zen.resp.status = StatusOK /\ zen.file.body = zen.resp.body))
    /\ [](Len(zen.steps) = 3 =>
            /\ get.state = "returned" /\ get.err = "nil"
            /\ zen.file.state \in {"written", "absent"})
    /\ [][zen'.file.state = "absent" /\ zen.file.state # "absent" =>
            /\ zen.pc = "remove" /\ zen'.pc = "end"
            /\ zen.file.state = "written"
            /\ zen.steps = MainSteps
            /\ get.err = "nil"]_vars
    /\ [](zen.warned =>
            /\ zen.pc = "end" /\ zen.exit = "0"
            /\ zen.file.state = "written")
    /\ [](zen.pc = "end" => zen.exit = "0" /\ zen.steps = MainSteps)
    /\ [][zen.pc \notin {"fatal", "end"}]_vars

\* The API answered with a non-OK status: the run is over with status 1,
\* the file of an earlier run is still there, nothing was processed.
C27_Witness ==
    /\ zen.pc = "fatal"
    /\ zen.resp.status = 500
    /\ zen.file.state = "stale"
    /\ zen.steps = <<"fetch">>

\* The removal failed after a CSV file was written: a warning, status 0.
C27_WitnessWarning ==
    /\ zen.pc = "end"
    /\ zen.warned
    /\ zen.csvWritten
    /\ zen.exit = "0"

====
